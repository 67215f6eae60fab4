# TLA+ verification of rama: PROXY client layer, HTTP server stack and configuration, UA classifier, fp endpoints

This directory holds TLA+ models of parts of the rama sources under `src/`:

- TLC configurations that model-check the models on small instances.
- TLAPS proofs of their safety properties for every value of the constants.

## The system and its parts

| Part | Source | What it does | State it changes |
|---|---|---|---|
| PROXY protocol client layer | `src/src/proxy/pp/client/layer.rs` | A connector middleware. `HaProxyService::serve` calls the inner connector. It takes the source address from the request context: the `Forwarded` client socket address, else the `SocketInfo` peer. It checks that source and destination have one IP family and encodes a v1 text header or a v2 binary header (optionally with a custom payload). It awaits `write_all` of the header, then hands the connection to its caller. | The configuration (set once by the constructors). Per call: its context, the connection, the bytes written on it, and the result. |
| PROXY header encoders | `rama::proxy::pp::protocol` (not under `src/`) | `v1::Addresses` and `v2::Builder`, whose u16 length field must count the address block and the payload. | None, a pure conversion. |
| HttpServer stack | `src/src/http/server/service.rs` | Builder methods each wrap the service stack built so far (`Stack<T, L>`). `serve` and `HttpService::call` serve one TCP connection with hyper, and `HyperServiceWrapper::call` runs one request through the shared `Arc`'d stack. | The layer stack while building. Per connection and per request: the calls in flight. |
| Http1/H2/Auto configuration | `src/src/http/server/service.rs` lines 37-577 | `http1()`, `h2()`, `auto()` pick a hyper connection builder. `http1_mut`/`h2_mut` hand out a config view, on the builder itself or on one half of the auto builder, whose setters each forward one value to hyper. | The hyper builder fields, until `service` moves the builder into `HttpService`'s `Arc`. |
| UserAgentClassifier | `src/rama-http/src/layer/ua.rs` | Parses `User-Agent` and an optional overwrite header. It inserts the resulting `UserAgent` into the context, then calls the inner service. | The request context. |
| Fingerprint endpoints | `src/rama-fp/src/service/endpoints.rs` | The XHR `number` endpoints `fetch_add` one shared counter. The post variants echo a path number, or 0 when it does not parse. The remaining endpoints render HTML. | The shared `AtomicUsize` counter. |

### How the parts interact

- The PROXY layer sits in a client connector stack, below whatever calls `serve` (for instance a timeout layer, which cancels the call by dropping its future).
- The UA classifier is one of the layers an `HttpServer` stack can hold.
- The fingerprint endpoints are the inner services of such a stack.
- The connection builder an `HttpServer` holds is configured before the stack is used: the stack methods carry it over unchanged, `serve(&self)` borrows it for one connection, and `service(self)` freezes it for every connection `HttpService::call` serves.

### Hard behaviours

- **PROXY layer:**
  - concurrent calls on one service;
  - cancellation at either await;
  - a `write_all` that fails or is cut off after a partial write;
  - early returns after the connection already exists;
  - the u16 length field at its limit.
- **HTTP stack:** the order of layers, and concurrent requests through one shared stack.
- **HTTP configuration:** setters on the auto builder's halves, `None` arguments that do nothing or disable, panicking values, and settings frozen at `service()`.
- **Endpoints:** concurrent `fetch_add` on one counter.

## Modules

| Module | Models | Status |
|---|---|---|
| `U16Arith` | The u16 arithmetic of the v2 length field, and the lemma `U16Mod`. | done |
| `HaProxyClient` | The PROXY client layer, both versions (see below). | done |
| `MC_HaProxyClient` + `HaProxyClient.cfg` | The TLC instance. | done |
| `HaProxyClientProofs` | TLAPS proofs of type correctness and the three safety invariants. | done |
| `StackLayers` | What each layer an `HttpServer` can stack does to a request and to a result (spec §4.2). | done |
| `HttpServerStack` | The `HttpServer` builder, `service`/`serve`, `HttpService::call` and `HyperServiceWrapper::call`, with requests walking down and up the layers. | done |
| `HttpServerStackAbs` | The stack contract: one atomic answer per request from the builder calls in order. | done |
| `HttpServerStackImpl` | The refinement mapping from `HttpServerStack` to `HttpServerStackAbs`, and `Implements`. | done |
| `MC_HttpServerStack` + `HttpServerStackOrder.cfg`, `HttpServerStackShort.cfg` | The TLC instances. | done |
| `HttpServerStackProofs` | TLAPS proof of `TypeOK`. | done |
| `HttpServerConfig` | The connection builder of `HttpServer`: the three constructors, the four config views and their setters, the stack methods, `service`, `serve` and `HttpService::call`. | done |
| `MC_HttpServerConfig` + `HttpServerConfig.cfg` | The TLC instance, with symmetry over connections. | done |
| `HttpServerConfigProofs` | TLAPS proofs of `TypeOK` and `ConfigApplied`. | done |
| `UserAgentClassifier` | `UserAgentClassifierLayer` (new, the two setters, `layer`) and `UserAgentClassifier` (new, default, `serve`). | done |
| `MC_UserAgentClassifier` + `UserAgentClassifier.cfg`, `UserAgentClassifierDoc.cfg` | The TLC instances. | done |
| `FpCounter` | The four XHR number endpoints of `endpoints.rs`, with the shared counter. | done |
| `MC_FpCounter` + `FpCounter.cfg` | The TLC instance, with symmetry over requests. | done |
| `FpCounterProofs` | TLAPS proofs of `AnswersDistinct`, and of `TypeOK` and `NumbersSequential` on the way. | done |
| `UserAgentClassifierProofs` | TLAPS proofs that `serve` computes the documented classification, and of `TypeOK` and `UAFaithful`. | done |

### HaProxyClient: how it corresponds to the code

**Constants:**

- `Req`, the concurrent serve calls on one service.
- `Addr4` and `Addr6`, socket addresses of each family.
- `NoAddr`, an absent address.
- `PayloadLens`, lengths of custom payloads.
- `MaxAppWrites`, a bound on the caller's writes.

`ConstAssumption` states what the proofs need: the two families are disjoint, `NoAddr` is in neither, and the lengths are naturals.

**Configuration `cfg`.** `Configs` is every value the public constructors can build:

- `tcp()` and `udp()` give version Two with no payload.
- `payload(..)` is only on version Two.
- `v1()` is only on (Tcp, Two). It resets the version to `version::One::default()`, so a payload set before is dropped.
- `Layer::layer` clones this configuration into the service (`Init`).

**Per-call state:**

| Variable | Holds |
|---|---|
| `phase[r]` | `idle`, `connecting` (at the inner-connector await), `writing` (at the `write_all` await), `done` (returned Ok) or `failed` (returned Err or dropped) |
| `err[r]` | The error returned |
| `fwd[r]`, `sock[r]` | The `Forwarded` and `SocketInfo` addresses in the call's own context |
| `peer[r]` | `conn.addr()` |
| `hdr[r]` | The encoded header |
| `wire[r]` | The chunks written on the connection: a full header, a cut-short header, or app data |
| `conn[r]` | `none`, `open` or `closed` |

**Actions:**

- `Start`: serve is called with some context, and awaits the inner connector.
- `InnerFails`: `inner.serve(..).await.map_err(Into::into)?`.
- `InnerReturnsConn` (through `Connected`): all of the synchronous code between the two awaits. In order:
  - `dst = conn.addr()`;
  - the `src` lookup (`Src`), with the "missing src" early return;
  - the family match, with the mismatch early return;
  - in v2, `write_payload`. Its check `PayloadFits` is the "payload too large" early return.
  - `build`, which produces `V1Header` or `V2Header`. The v2 length is `(12|36 + payload) % 2^16`, the width of the field.

  Every early return drops the fresh connection (`ConnDropped`).
- `WriteDone`: `write_all` completes, the header is on the wire, and serve returns Ok.
- `WriteFails`: `write_all` fails, possibly after a partial write (`MaybePartial`), and `.context(..)?` returns Err. The connection is dropped.
- `Cancel`: the serve future is dropped at either await. At the second await a partial header may already be out.
- `AppWrite`: the caller of a successful serve writes data on the connection.

**Abstraction.** Addresses are model values of a family, and a payload is its length. The header is a record of what the encoders write: version, family, protocol, src, dst, payload length and length field. Formatting the text line and the byte layout are left out, since no property is about them.

### HttpServerStack: how it corresponds to the code

**The builder.** Every builder method of `service.rs` (lines 579-1195) has the same body: it moves the hyper builder over and replaces the service builder by `self.service_builder.<method>(arg)`, whose type is `Stack<T, L>` with the new layer `T` inside the earlier ones. The model has:

- the sets of method names, one per impl block (`CustomLayerMethods` ... `GuardMethods`);
- `Build(c)`, one call `c` of any of them, which sets `sb' = Push(sb, LayerArg(c))`;
- `Push(b, t)` for `Stack::new(t, b)`. A `Layer` value is represented by what `Layer::layer` does with it: the layers it wraps around a service, outermost first. `Stack::layer(s)` is `outer.layer(inner.layer(s))`, so `Push(b, t) = b \o t`. `Identity` is `<< >>`. Two `Stack` trees that wrap the same layers in the same order serve every request alike, so the tree shape itself is not kept. Keeping the flat sequence, and not a tree with a recursive flattening operator, lets the prover reason about the module.

`layer(..)` takes a custom layer: a pass-through one, or a stack the caller built with `ServiceBuilder` (`LayerArg` gives its calls' layers in call order). No run enumerates `layer` calls: the abstract contract flattens a custom stack with the same operator, so such a run would compare the definition with itself. `calls` is a history variable: the builder calls made, in order, for the refinement mapping.

**Serving.**

- `Init`: `http1()`, `h2()` or `auto()` with `ServiceBuilder::new()`.
- `Service`: `service(leaf)` consumes the server and fixes `svc = sb`, shared by every connection through the `Arc` of `HttpService`.
- `CallConn(c)`: `HttpService::call` hands connection `c` and a clone of that service to hyper.
- `Serve(c)`: `serve(&self, ..)` applies the stack anew and serves one connection; the server is only borrowed, so it can serve more.
- The model has no end of a `serve` connection, so once `serve` has run no builder method can follow. In the code the borrow ends with the connection, and the server can then be extended and served again. Such a server serves its later connections with the longer stack; for the properties about one request's answer that is a fresh run of the same model, so nothing they check is lost, but the model says nothing about a stack changing between connections.
- `Negotiate`: the protocol a connection speaks (HTTP/1, h2, or either for `auto`).
- `Arrive(r)`: `HyperServiceWrapper::call` for request `r`. Under HTTP/1 a connection's next request is only read once the previous response is out; under h2 they interleave.

**A request's walk** (spec §5: pre-processing outermost first, post-processing innermost first):

| Variable | Holds |
|---|---|
| `stage[r]` | `idle`, `down` (pre-processing), `leaf` (waiting for the leaf), `up` (post-processing), `done` |
| `pos[r]` | the layer it is at; `Len(svc)+1` is the leaf |
| `cur[r]` | the request as passed inwards |
| `saved[r][i]` | the request layer `i` received, which its post-processing reads |
| `res[r]` | the result passed outwards |
| `req0[r]`, `out[r]` | the request hyper delivered and the result hyper got |

`Descend` runs one layer's pre-processing or short-circuit (filter, body limit). `Leaf` calls the leaf, which answers or panics at once, or waits (`slow` answers later with `LeafLate`, `stall` never). `TimeoutFires(r, i)` is timeout layer `i`'s timer firing while the leaf waits: the inner future is dropped and no layer inside `i` sees a result. `Ascend` runs one layer's post-processing, and `Respond` hands the result to hyper.

**Layers** (`StackLayers`, from spec §4.2 and the methods' doc comments, since the layers are outside `src/`). All header layers act on one header name, the only case where their order matters.

- Request-side layers: `add_extension`; override, append or insert-if-absent request header; `set_request_id` (insert-if-absent of a generated id).
- Response-side layers: the three response-header modes; `propagate_header` (override with the first value the layer's request carried); `propagate_request_id` (insert-if-absent).
- Short-circuits: `filter` returns `Rejected` as an error; `request_body_limit` answers 413. That follows the method's doc comment ("convert them into `413 Payload Too Large` responses"). Spec §4.2 says the layer "fails with `PayloadTooLarge`", and under that reading the outer layers would not post-process the answer.
- `timeout` returns the `Timeout` error.
- `catch_panic` turns a panic into a 500.

Errors pass every layer unchanged, and a panic unwinds past every layer up to a `catch_panic`. The remaining layers (tracing, body mapping, compression, sensitive headers, path normalisation, redirects) pass everything through, since no property observes them.

**The abstract specification** `HttpServerStackAbs` has the builder calls `acalls`, and per request its delivered request, `idle`/`busy`/`done`, and the result. `ARespond` answers a busy request in one step with one of `Outcomes(LayersOf(acalls), 1, req)`, the recursive evaluation of the stack with the first call outermost. A timeout over a slow leaf gives its error or the leaf's answer. A stalled leaf with no timeout gives no outcome, so the request is never answered. The refinement mapping sends `calls`, `req0` and `out` to `acalls`, `areq` and `aout`, a request in `down`/`leaf`/`up` to `busy`, and `service`/`serve` to `serving`.

### HttpServerConfig: how it corresponds to the code

A setting is a field name and a value. The values are `Dflt` (hyper's default) and a few model values: `"a"`/`"b"` for two accepted values, `"on"`/`"off"` for a bool, `None` for an `Option` argument, `"small"` for a `max_buf_size` below 8192 and `"huge"` for a `max_send_buf_size` above `u32::MAX` (`ArgVals`).

**State:**

- `kind` is the builder `http1()`, `h2()` or `auto()` picked.
- `h1` and `h2` are the settings of its http1 and h2 halves. A plain builder only has one half, and the other stays at its defaults.
- `phase` is `building`, `service` (after `service(self)`) or `panicked`.
- `frozen` is the builder in `HttpService`'s `Arc`.
- `calls` records the setter calls, in order. It is a history variable that only the properties read.
- `conn` holds, per connection, whether it is `idle`, `active` or `done`, which protocol it negotiated, whether `serve` or `HttpService::call` started it, how many calls preceded it, and the settings it was handed.
- `layers` counts the stack methods called.

**Actions:**

- `Http1Set`, `H2Set`, `AutoHttp1Set` and `AutoH2Set` are `http1_mut`/`h2_mut` followed by one setter of the view they return.
  - Each is guarded by its builder kind. The auto ones write the auto builder's own half (`self.builder.http1()` / `.http2()`).
  - All share `SetField`. A setter needs `&mut self`, so no `serve` may hold the server borrowed (`NotBorrowed`).
  - A panicking value ends the builder. Otherwise the value is stored as the doc comments say (`Stored`): `None` does nothing for the four window, frame and stream setters (`NoneIsNoOp`), and disables `keep_alive_interval`.
- `AddLayer` is any stack method (`layer`, `timeout`, ...). Each builds a new `HttpServer` with `builder: self.builder`.
- `Service` is `service(self)`: the builder moves into the `Arc`.
- `Serve(c)` is `serve(&self)`: `hyper_serve_connection` with the builder as it is, for a protocol the builder serves (`Protocols`). The builder stays borrowed until `ConnEnd(c)`.
- `Call(c)` is `HttpService::call`, with the shared builder.

The fields a run sets are constants (`H1Fields`, `H2Fields`). The timer setters, the `HttpServer` `Clone`, and how hyper itself reads the settings it is handed (say, `adaptive_window` over the window sizes) are left out.

### UserAgentClassifier: how it corresponds to the code

`layerHdr` is the layer's `overwrite_header`. `Init` is `UserAgentClassifierLayer::new`. `OverwriteHeader` and `SetOverwriteHeader` are the two setters. `svcs` lists the `overwrite_header` of every service built, in order:

- `LayerService` is `Layer::layer`, which clones the layer's header name into the new service.
- `ServiceNew(oh)` is `UserAgentClassifier::new`.
- `ServiceDefault` is `Default`.

`MaxServices` bounds `svcs`.

`Serve(i, req, c0)` is `serve` of service `i`, for a request `req` and an outer `UserAgent` `c0` (or none) already in the context. It records in `last` the UA that the inner service finds. `Classify` follows the code step by step:

1. The typed `User-Agent` header. A request's header is absent, invalid (refused by `typed_get`) or a valid string.
2. The overwrite header. It is looked up only if the service has a name, and parsed by `serde_html_form` into `UserAgentOverwrites`. A header that does not parse is ignored as a whole.
3. Its `ua` replaces the UA.
4. Its `http`, `tls` and `preserve_ua` are applied (`WithOverwrites`) only when there is a UA.
5. `ctx.insert` replaces the context's UA, or the context keeps `c0`.

A request carries one overwrite-like header: none, or one of `HdrNames`. A service only reads the name it holds, so one header suffices. A serve changes nothing shared, so `Serve` fires once per behaviour, after any sequence of builds and setter calls.

`UserAgent::new` and what it derives (kind, version, platform, the default agents) live in `rama-ua`, outside `src/`. The derived values are the single value `Derived`.

### FpCounter: how it corresponds to the code

Every handler is split at its `get_request_info` await. Handlers of concurrent requests interleave there, since tokio runs them on any worker.

- `GetStart(r, e)` is the part of `get_api_fetch_number` or `get_api_xml_http_request_number` before the await.
- `GetAnswer(r)` is the `json!` built after it. Its `"number"` is `counter.fetch_add(1, SeqCst)` (`FetchAdd`), one atomic step that wraps at usize's width. `issued` is a history of the values it returned.
- `PostStart(r, e, p)` is `post_api_*_number` up to the await. It includes the `Path` extractor: a numeral in range gives its value, and anything else takes the `Err` arm and gives 0 (`ParseNumber`).
- `PostAnswer(r)` answers that number.

The fingerprint data (headers, request info) goes into the answer and is left out, since no property observes it. usize is `W` bits wide. The counter starts at 0 (rama-fp's `State`, outside `src/`).

## Runs

### haproxy_client

`haproxy_client` runs `MC_HaProxyClient` with `HaProxyClient.cfg`. It passes with about 446k distinct states at depth 9, in about 40 s.

**Bounds:**

- **Two calls**, so calls interleave and each can see a different context.
- **Addresses:** two IPv4 and one IPv6, so Forwarded and SocketInfo can differ within a family and mismatch across families.
- **Payload lengths {1, 65499, 65524}:**
  - 65499 fits exactly with IPv6 (36 + 65499 = 65535, the largest u16) and with IPv4.
  - 65524 is one byte too many with IPv4 (12 + 65524 = 65536) and too many with IPv6.

  So the boundary of the u16 check is reached on both sides and for both families.
- **One app write per call**, enough to see data follow the header.
- **Every configuration** is in `Init`: tcp, udp, each with each payload, and v1.

**Properties:**

- `TypeOK`.
- `Announced`: a call that returned Ok, or whose connection carries app data, has exactly one complete header as the first chunk, and nothing but app data after it. A failed or cancelled call never hands its connection on, even after a partial write.
- `HeaderFaithful`: every header written carries the call's own Forwarded-else-SocketInfo source, the connection's peer as destination, one IP family, and the configured version, v2 protocol and payload.
- `LengthField`: every v2 header's length field equals address block plus payload.
- `Completes` (liveness): every call that began eventually returns.

**Deadlock** is not checked (`CHECK_DEADLOCK FALSE`): the model has finitely many calls, and each ends in `done` or `failed`, where the system really stops.

**Fairness.** `FairSpec` assumes weak fairness of each call's own progress: the inner connector's answer and the end of `write_all`. The tokio executor polls every woken task, and the connector and the write each end, with a result, an error, or the caller's timeout. Cancellation and app writes get no fairness, since nothing obliges a caller to do either.

**Mutants.** Each property is shown to be sensitive to a plausible bug of the code:

| Property | Mutant |
|---|---|
| `TypeOK` | A missing source not treated as an error (`ConnectedNoSrcCheck`) |
| `Announced` | A write error swallowed (`WriteFailsSwallowed`) |
| `HeaderFaithful` | SocketInfo consulted before Forwarded (`SrcSocketInfoFirst`) |
| `LengthField` | The Err of `write_payload` ignored (`ConnectedPayloadErrIgnored`) |
| `Completes` | A failed header write retried on a new connection (`WriteFailsRetried`) |

### The HttpServerStack runs

Both runs check `Implements`, the abstract specification as a `PROPERTY`. `Init` includes all three builders, and both `service` + `HttpService::call` and `serve`. One connection carries the requests, so HTTP/1 serialises them and h2 interleaves them.

| Run | cfg | Builder methods | Requests | Layers | Distinct states |
|---|---|---|---|---|---|
| `stack_order` | `HttpServerStackOrder.cfg` | extension, request headers (three modes), response header, `propagate_header`, `set_request_id`, `propagate_request_id` | two, concurrent | up to 3 | about 707k |
| `stack_short_circuit` | `HttpServerStackShort.cfg` | `timeout`, `filter`, `catch_panic`, `request_body_limit`, response header | one; any header, body size and leaf kind | up to 3 | about 138k |

- **stack_order:** three layers is enough to put a layer between two others, for instance a request-header rewrite between a propagate and the leaf. With one header value, override, append and insert-if-absent already give different answers depending on order.
- **stack_short_circuit:** also checks `Responds`. Its leaves are `ok`, `panic`, `slow` and `stall`, with bodies small or big, so every short-circuit, the timeout race and an uncaught panic happen under and over every other layer. One request suffices, since the question is per request.

**Properties:**

- `Implements` (refinement): every result hyper gets is one the contract allows for the request as delivered and for the builder calls in call order. It can only hold if three things are all right: the `Stack<T, L>` nesting, each post-processing reading the request its own layer received (not the one inner layers rewrote), and requests of one connection keeping their state apart.
- `Responds` (liveness): a request the service has is eventually answered, unless its leaf stalls and no timeout was among the builder calls.

Deadlock is not checked: a finite set of requests ends in `done` (or a stalled leaf), and the server then waits for more.

**Fairness.** `FairSpec` is weak fairness of each request's own steps. Tokio polls woken tasks, and the timer wakes a timeout's task. Builder calls, connections and arriving requests have no fairness.

**Mutants:**

| Run | Property | Mutant |
|---|---|---|
| `stack_order` | `Implements` | The new layer made the outer one (`PushOutermost`) |
| `stack_short_circuit` | `Implements` | `service()` serving the unlayered leaf (`ServiceUnlayered`) |
| `stack_short_circuit` | `Responds` | `serve` serving the unlayered leaf, so the asked-for timeout is missing (`ServeUnlayered`) |

### server_config

`server_config` runs `MC_HttpServerConfig` with `HttpServerConfig.cfg`. It passes with about 513k distinct states at depth 10, in about 20 s.

**Bounds:**

- Every builder kind is in `Init`.
- **Up to three setter calls**, so a field can be set, set again and reset, and calls on both halves of an auto builder can mix.
- **One stack method.**
- **Two connections**, symmetric. One can be served before a setter call and one after it, or one by `serve` and one by `HttpService::call`.
- **Http1 fields** `keep_alive` (a bool) and `max_buf_size` (with its panicking value).
- **H2 fields** `initial_stream_window_size` (a `None` that does nothing), `keep_alive_interval` (a `None` that disables), `adaptive_window` and `keep_alive_timeout`.

Deadlock is not checked: a served server waits for more connections.

**Properties:**

- `ConfigApplied` is the main property. Every connection, served by `serve` or by `HttpService::call`, is handed the settings that the setter calls before it give for its negotiated protocol (`SetBy`):
  - each field holds the last effective call's value;
  - a `None` is obeyed as documented;
  - no earlier call had a panicking value.

  `SetBy` is stated over the call history, independently of `Stored`.

**Mutants:**

- `AutoHttp1SetOnCopy`: the auto http1 view writes a copy, so the setting is lost. It breaks `ConfigApplied`.
- `AddLayerResets`: a stack method rebuilds the connection builder. It breaks `ConfigApplied`.
- `StoredNoneResets`: every `None` resets, the no-op ones included. It breaks `ConfigApplied`.

### The UserAgentClassifier runs

The instance has:

- two UA strings;
- two header names, so that a request may carry a header other than the service's;
- one HTTP agent and one TLS agent;
- an outer UA in the context, or none;
- up to two services.

Every kind of request is enumerated: each UA header (absent, invalid or valid), each header name, and each overwrite value (garbled, or parsed with every combination of present and absent fields).

- **ua_classify** (`UserAgentClassifier.cfg`, passes, about 38k states):
  - `UAFaithful`: every serve hands the inner service the UA that the documented rules (`Expected`) give. The overwrite header counted is the one the serving service was built with, not the layer's current one. The outer UA is left in place when the request yields none.
  - Mutants:
    - `ClassifyAgentsFirst` applies the agent overwrites before the `ua` replacement, and breaks `UAFaithful`.
  - Deadlock is checked. The setters are always enabled, so no state is stuck.
- **ua_doc_header_only** (`UserAgentClassifierDoc.cfg`, violation): `DocHeaderOnly` states the struct's doc comment, that the context is updated if the request has a valid `User-Agent` header. TLC finds a request with no `User-Agent` header whose overwrite header gives `ua`, and `serve` inserts a UserAgent for it (lines 138-139 and 154-155). The code and its tests make this deliberate, so the doc comment is incomplete.

### fp_counter

`FpCounter.cfg` has:

- five requests, symmetric;
- `W = 2`, so the counter wraps at 4 and five GETs wrap it;
- path numerals 1 (parses) and 4 (past usize::MAX, so it answers 0).

It passes with about 6.9k distinct states. Deadlock is not checked: once every request is answered the server waits for more.

- `AnswersDistinct`: no two answered GETs, of either endpoint, share a number while at most 2^W were answered. The guard is needed: the fifth GET gets 0 again.

Mutants:

- `FetchAddAsLoad` reads the counter without incrementing it. It breaks `AnswersDistinct`.

## What is proved (TLAPS)

`HaProxyClientProofs` proves, for all values of the constants that satisfy `ConstAssumption`:

- `TypeCorrect`: `Spec => []TypeOK`.
- `AnnouncedSafe`, `FaithfulSafe` and `LengthSafe`: `Spec => []Announced`, `[]HeaderFaithful` and `[]LengthField`. Together they are `HeaderSafety`.

The invariants are not inductive as they stand. `HeaderFaithful` says nothing about a call in `writing`, whose header is not yet on the wire. `Announced` says nothing about a failed call's wire. The strengthening `IInv` is `TypeOK` plus a per-call `CallInv` (it was first checked by TLC as an invariant):

- `idle`/`connecting` calls have an empty wire and no connection.
- A `writing` call has an empty wire, an open connection, and a header that already satisfies `HdrOK` (source = `Src`, destination = peer, one family, configured version, protocol and payload, exact length field).
- A `done` call's wire is that header followed by app chunks.
- A `failed` call's wire holds only partial chunks.

**Proof structure:**

- `InitIInv` shows `Init => IInv`.
- One lemma per action shows that it preserves `IInv`. The two aborts at the `write_all` await share `WriteAbortStep`.
- `OtherCalls` shows that the steps of one call leave every other call's `CallInv` intact, since contexts are per call.
- `NextIInv` combines them, and `IInvSafe` derives the properties.

**Helper lemmas:**

- `ConfigFacts`: what a constructed configuration looks like.
- `HeaderTyped`: both encoders produce a `Header`.
- `LenFieldExact`: an accepted payload is counted exactly.
- `U16Mod`, in `U16Arith`: the modulo-2^16 facts.

`UserAgentClassifierProofs` proves, for all constants that satisfy `UAAssumption` (a UA string is never the "none" sentinel, and an outer layer's context value is a UserAgent or nothing):

- `ClassifyIsExpected`: the code's classification equals the documented rules, for every overwrite header name, request and outer UA. The proof splits into four cases: no parsed overwrite; an overwrite `ua`; no overwrite `ua` with a valid header; neither.
- `TypeCorrect` and `FaithfulSafe`: `Spec => []TypeOK` and `Spec => []UAFaithful`. `UAFaithful` is not inductive by itself: a later build must not change the service that `last` names. The strengthening `IInv` adds that `last.svc` indexes an existing service. Builds only append to `svcs`, so the entries that exist stay fixed.

`FpCounterProofs` proves `DistinctSafe` (`Spec => []AnswersDistinct`), with `SequentialSafe` (`Spec => []NumbersSequential`: in fetch order the numbers are 0, 1, ... modulo 2^W) on the way, for every width `W >= 1` and every set of requests. The strengthening adds two facts:

- before the wrap, the counter equals the number of fetch_adds;
- every answered GET's number is below that count, and the numbers are pairwise distinct.

A new GET therefore gets the count itself, a value no one has. The one arithmetic fact needed, that a value below 2^W is its own remainder, is `ModSmall`. `TypeCorrect` (`Spec => []TypeOK`) follows from the same invariant.

`HttpServerConfigProofs` proves `TypeCorrect` (`Spec => []TypeOK`) and `ConfigAppliedSafe` (`Spec => []ConfigApplied`), for every set of connections and fields and every bound (`ConfigAssumption`: the bounds are naturals).

`ConfigApplied` is not inductive as it stands: it says nothing about the builder a later connection will be handed. The strengthening `BuilderInv` adds five facts:

- every call names a field of its own protocol;
- no call panicked while the builder lives;
- while building, both halves hold what the calls so far give (`Holds`);
- after `service`, the frozen builder holds that;
- a connection started after at most every call.

**Proof structure:**

- `SetByAppend` is the core lemma. One more call gives its field `Stored` of the old value and leaves every other field, or every field of the other protocol, as it was. The witness of "the last effective call" is the new call, or the old witness.
- `HoldsAppend` lifts it to a builder half, and `SubSeqAppend` shows that a later call leaves a running connection's prefix alone.
- `SetFieldStep` covers all four setter actions.
- `StartConn` covers `Serve` and `Call`.
- `NextIInv` combines them.

The model says "last" by a witness index rather than by `SelectLastInSeq`. The maximum's existence would need induction, which the provers cannot instantiate, and the witness form needs none.

`HttpServerStackProofs` proves `TypeCorrect` (`Spec => []TypeOK`), for every set of requests, connections and builder methods and every bound (`StackAssumption`, `MethodsAssumption`, and `LayersAssumption`: a client's headers and body sizes are ones the model knows of). `TypeOK` is not a property of a run: the bound on the layers is the model's own, so what the theorem adds is that the walk of every request stays inside the stack it was handed, with a client's request and a result at every layer.

`TypeOK` is not inductive as it stands. A `Serve` in a later phase could change the service under a request in flight, and a layer's post-processing reads `saved` and `res`, which `TypeOK` allows to be the `NoReq`/`NoRes` placeholders. The strengthening `IInv` adds:

- after the builder phase, the service is the stack built (`svc = sb`);
- a request that has left `idle` arrived after the builder phase, and carries a client's request;
- a request going down sits at a layer of the service or at the leaf;
- a request going up sits at a layer (or 0) and carries a result.

TLC checked `IInv` as an invariant on the stack runs before it was proved.

**Proof structure:**

- The layer lemmas: `LayersOK` (every layer a builder method adds carries a value of its kind), `LayerArgType`, `SetHdrType`, `ClientType`, `PreType`, `PostType`, `LeafResultType` and `StopResultType`.
- `InitIInv`, then one lemma per action (`BuildIInv` ... `RespondIInv`). `Descend` and `Leaf` have one case per branch.
- `NextIInv` combines them.

For the prover, the `CASE` expressions of `StackLayers` and `Negotiate` are written as `IF` chains with the same meaning, since their guards are disjoint.

**Only model-checked:**

- Liveness (`Completes`, `Responds`), since the prover does not handle fairness or `ENABLED`.
- `Implements`. The abstract stack's `Outcomes` and `Waits` are `RECURSIVE` operators, so `HttpServerStackAbs` and `HttpServerStackImpl` stay TLC-only. What they compute for every stack could only be shown by induction over its depth, which the provers cannot instantiate.
- The mutants.

## Not modelled (yet), and the plan

1. **`HttpServerStack` refinement proof.** The refinement is checked by TLC only. The abstract `Outcomes` and `Waits` are `RECURSIVE` operators, and `LayersOf` is `FlattenSeq`, a recursive function. Proving that each `Respond` step gives one of `Outcomes(...)` needs induction over the depth of the stack, which is out of the provers' reach (see above).
2. **A server extended after its `serve` connections end.** `HttpServerStack` would need a `ConnEnd` as in `HttpServerConfig`, a stack per connection, and an abstract contract that answers each request from the calls made before its connection was served.
3. **Not modelled:**
   - The `timer` setters, the `HttpServer` `Clone`, and how hyper interprets the settings handed to it.
   - The HTML rendering in `endpoints.rs`, which is formatting without state.
   - The byte-level v1/v2 encoding, which is outside `src/`.

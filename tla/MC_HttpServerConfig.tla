------------------------- MODULE MC_HttpServerConfig -------------------------
(* A small instance of HttpServerConfig for TLC: one Http1 setting with  *)
(* a panicking value, and the four H2 settings the doc comments tie      *)
(* together (a window size, adaptive_window, the keep-alive pair).       *)
EXTENDS HttpServerConfig, TLC

MCH1Fields == {"keep_alive", "max_buf_size"}

MCH2Fields == {"initial_stream_window_size", "adaptive_window",
               "keep_alive_interval", "keep_alive_timeout"}

(* The connections are interchangeable.                                *)
MCSymmetry == Permutations(Conns)

=============================================================================

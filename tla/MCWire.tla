------------------------------- MODULE MCWire -------------------------------
(* One writer, one reader; payloads that are empty, as long as allowed, one byte
   too long for the reader and too long for the length prefix. *)
EXTENDS Wire

Payloads == { << <<1>>, <<>>, <<0, 1, 1>> >>,
              << <<1, 0>>, <<1, 1, 0, 1>> >>,
              << <<>>, <<0, 0, 0, 0, 0, 0, 0, 1>> >> }
=============================================================================

------------------------------- MODULE MC_Main -------------------------------
(* Main on a cube of two frames, metadata files of up to three tokens,   *)
(* and a 4-bit std::size_t so that a negative NUM_VECTORS wraps to a     *)
(* count beyond the largest vector.                                      *)
EXTENDS Main

MCMetaEnvs ==
  {[kind |-> "unset", tokens |-> <<>>],
   [kind |-> "unopenable", tokens |-> <<>>]}
  \cup {[kind |-> "file", tokens |-> f] :
          f \in {<<"num", "num">>, <<"num">>, <<"num", "num", "bad">>,
                 <<"num", "bad", "num">>}}
MCNumEnvs ==
  {[kind |-> "unset", value |-> 0], [kind |-> "text", value |-> 0]}
  \cup {[kind |-> "number", value |-> n] : n \in {-1, 0, 2}}
=============================================================================

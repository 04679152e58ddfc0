--------------------------- MODULE MCSocketActivation ---------------------------
(***************************************************************************)
(* SocketActivation for TLC: a stream socket at a path, one without a      *)
(* Listen option that is made and never polled, and a datagram socket at a *)
(* path, which cannot be made.  Their services are of one kind; a service  *)
(* without ExecStart does nothing one with ExecStartPre cannot do.         *)
(***************************************************************************)
EXTENDS SocketActivation, TLC

CONSTANTS s1, s2, s3

Options   == s1 :> "stream" @@ s2 :> "none" @@ s3 :> "datagram"
Addresses == [s \in Sockets |-> "path"]
OneKind   == {[s \in Sockets |-> k] : k \in Kinds \ {"no ExecStart"}}

=============================================================================

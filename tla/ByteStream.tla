----------------------------- MODULE ByteStream -----------------------------
(***************************************************************************)
(* What connection_t promises the protocol above it: the bytes given to    *)
(* WriteNoCopy reach the socket in order, each once, none invented, until  *)
(* the connection is torn down.  A byte is its position in the output.     *)
(***************************************************************************)
EXTENDS Naturals, Sequences

VARIABLES written,  \* number of bytes handed over by the protocol
          out,      \* the bytes accepted by the socket, oldest first
          open

Init == written = 0 /\ out = <<>> /\ open = TRUE

Produce ==
  /\ open
  /\ written' \in Nat /\ written' >= written
  /\ UNCHANGED <<out, open>>

Deliver ==
  /\ open
  /\ \E n \in (Len(out) + 1)..written :
       out' = [i \in 1..n |-> IF i <= Len(out) THEN out[i] ELSE i]
  /\ UNCHANGED <<written, open>>

Abort == open /\ open' = FALSE /\ UNCHANGED <<written, out>>

Next == Produce \/ Deliver \/ Abort

Spec == Init /\ [][Next]_<<written, out, open>>
=============================================================================

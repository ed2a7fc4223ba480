------------------------- MODULE CertificateMemory -------------------------
(***************************************************************************)
(* What the certificate store promises its readers, whatever the episodes  *)
(* that fill it do: a pair is certified at most once, and every certified  *)
(* answer carries that one certificate.                                    *)
(***************************************************************************)
CONSTANTS Pair, Nothing

VARIABLES
  memory,   \* the certificate of each pair, or Nothing
  told      \* the certified answers given so far

mvars == <<memory, told>>

MInit ==
  /\ DOMAIN memory = Pair
  /\ told = {}

Learn(p) ==
  /\ memory[p] = Nothing
  /\ memory' = [memory EXCEPT ![p] = memory'[p]]
  /\ UNCHANGED told

Tell ==
  /\ told \subseteq told'
  /\ \A a \in told' \ told : a.cert = memory[a.pair] /\ a.cert # Nothing
  /\ UNCHANGED memory

MNext == Tell \/ \E p \in Pair : Learn(p)

MSpec == MInit /\ [][MNext]_mvars
=============================================================================

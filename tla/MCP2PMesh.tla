----------------------------- MODULE MCP2PMesh -----------------------------
(***************************************************************************)
(* P2PMesh for TLC.                                                        *)
(***************************************************************************)
EXTENDS P2PMesh, TLC

\* What agents report besides their state.
NoExtra == {}
Candidates == Peer \X {"Candidate"}
FirstCandidate == {<<1, "Candidate">>}
Datagrams == Peer \X {"Recv"}

\* The addresses are alike.
AddressSymmetry == Permutations(Address)

=============================================================================

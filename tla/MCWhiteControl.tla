--------------------------- MODULE MCWhiteControl ---------------------------
(* Small instances of the White Team's exercise control. *)
EXTENDS WhiteControl, TLC

\* Controllers are interchangeable, and so are requests.
Interchangeable == Permutations(Controllers) \cup Permutations(Requests)

\* Bound: commands that overlap are followed until the ledger has three lines,
\* commands that do not until it has MaxRecords.
ShortRaces == overlapped => Len(ledger) < 3

=============================================================================

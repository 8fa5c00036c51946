-------------------------------- MODULE Lists ---------------------------------
(***************************************************************************)
(* Array.prototype.filter, which the TypeScript modules share, as a loop   *)
(* over positions.                                                         *)
(***************************************************************************)
EXTENDS Naturals, Sequences

\* filter: the elements of s at the positions I, in their order
Kept(s, I) ==
  LET f[n \in 0..Len(s)] ==
        IF n = 0 THEN <<>> ELSE IF n \in I THEN Append(f[n - 1], s[n]) ELSE f[n - 1]
  IN f[Len(s)]
=============================================================================

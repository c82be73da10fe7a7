-------------------------------- MODULE Sums --------------------------------
(***************************************************************************)
(* Sums of rewards, scores and advantages: what sum(...), torch.sum and    *)
(* np.mean before its division add up, in whatever order they do.          *)
(***************************************************************************)
EXTENDS FiniteSetsExt

\* The sum of f[x] over the elements x of the finite set S.
Sum(f, S) == MapThenSumSet(LAMBDA x : f[x], S)
=============================================================================

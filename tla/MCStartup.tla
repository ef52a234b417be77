----------------------------- MODULE MCStartup -----------------------------
(* Two providers; process numbers next to each other, and sixteen apart on *)
(* both sides of a multiple of sixteen.                                    *)
EXTENDS Startup, TLC

ProviderSymmetry == Permutations(Providers)
=============================================================================

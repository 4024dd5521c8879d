-------------------------- MODULE MCAnalysisPipeline --------------------------
(***************************************************************************)
(* Two files, two workers and the configs of the three profiles.  ArtistA  *)
(* and ArtistB analyse styles and cluster by artist; file 1 is not in its  *)
(* artist's core for ArtistA; ArtistB finds file 2 out of domain, scores   *)
(* with another model and trains an autoencoder.  Folders clusters by      *)
(* concept folder and writes role evidence, Together clusters all files in *)
(* one scope and finds file 2 too small; neither scores.                   *)
(***************************************************************************)
EXTENDS AnalysisPipeline, TLC

CONSTANTS ArtistA, ArtistB, Folders, Together

MCSettings ==
  [x \in Config |->
     [fits   |-> IF x = Together THEN {1} ELSE {1, 2},
      domain |-> IF x = ArtistB THEN {1} ELSE {1, 2},
      core   |-> IF x = ArtistA THEN {2} ELSE {1, 2},
      parts  |-> CASE x = ArtistA  -> Part \ {"sae"}
                   [] x = ArtistB  -> Part
                   [] OTHER        -> {"scan", "embed", "group"},
      scope  |-> CASE x \in {ArtistA, ArtistB} -> "artist"
                   [] x = Folders              -> "concept"
                   [] x = Together             -> "global",
      roles  |-> x = Folders,
      scorer |-> IF x = ArtistB THEN 2 ELSE 1]]

WorkerSymmetry == Permutations(Worker)
=============================================================================

--------------------------- MODULE MCReviewOverlay ---------------------------
(* ReviewOverlay on a small instance: five samples in two folders.         *)
EXTENDS ReviewOverlay

CONSTANTS c1, v1, x1

FolderA == [prefix |-> 5, base |-> "a"]
FolderB == [prefix |-> 0, base |-> "b"]

FiveSamples == 1..5

Score(v) == {[trusted |-> TRUE, value |-> v]}

Styled(class) == {[scope |-> 1..3, class |-> class]}

Plain(folder, stem) ==
  [valid |-> TRUE, area |-> 2, folder |-> folder, stem |-> <<stem>>,
   suffix |-> "jpg", rendered |-> FALSE, domain |-> Score(2), aesthetic |-> Score(2),
   style |-> {}, ai |-> FALSE, outside |-> FALSE]

(* Three names of folder a differ only in case; 1, 2 and 4 are duplicates  *)
(* through 2, the largest of them.                                         *)
FiveFacts ==
  (1 :> [Plain(FolderA, "x") EXCEPT !.style = Styled("normal")]) @@
  (2 :> [Plain(FolderA, "x") EXCEPT !.style = Styled("outlier"), !.area = 3, !.ai = TRUE]) @@
  (3 :> [Plain(FolderA, "x") EXCEPT !.style = Styled("normal"), !.aesthetic = {}]) @@
  (4 :> [Plain(FolderB, "y") EXCEPT !.aesthetic = Score(1)]) @@
  (5 :> [Plain(FolderB, "z") EXCEPT !.area = 1, !.rendered = TRUE])

TwoGroups == {[config |-> c1, members |-> {1, 2}], [config |-> c1, members |-> {2, 4}]}

NoMinimum == (c1 :> 2)

Selections == {{1, 2}}

Basic == [minimum_area |-> 1, domain |-> 0, aesthetic |-> 0, style |-> "off",
          duplicates |-> FALSE, minimum_folder |-> 1, mode |-> "off", target |-> 0,
          add_prefix |-> TRUE, format |-> "original"]

(* Duplicates removed, balanced and converted; only the best, as they are; *)
(* and one that is refused, for it names no target.                        *)
SomeSettings ==
  {[Basic EXCEPT !.duplicates = TRUE, !.mode = "auto", !.format = "webp"],
   [Basic EXCEPT !.minimum_area = 2, !.domain = 2, !.aesthetic = 2, !.style = "all",
                 !.minimum_folder = 2],
   [Basic EXCEPT !.mode = "manual"]}

TwoRuns == {11, 12}

NoResumes == [p \in WORKER_PHASES |-> 0]
=============================================================================

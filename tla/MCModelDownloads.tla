--------------------------- MODULE MCModelDownloads ---------------------------
(* ModelDownloads on a small instance: model 2 needs model 1.              *)
EXTENDS ModelDownloads

OneAndTwo == 1..2
FileCounts == <<1, 2>>
SecondNeedsFirst == <<(<<1>>), (<<1, 2>>)>>
DependencyOnly == {<<1, 1>>}
=============================================================================

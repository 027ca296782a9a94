---- MODULE MCKmvStore ----
EXTENDS KmvStore
MCBatches == {<<<<2, 1>>>>, <<<<2, 2>>, <<1, 1>>, <<2, 1>>>>, <<<<1, 1>>, <<2, 1>>, <<1, 1>>, <<3, 2>>, <<1, 1>>, <<2, 1>>>>}
MCOutOfCores == {-1, 0, 1}
MCHashOf == <<0, 1, 3>>
MCSymmetry == Permutations(Mrs)
====

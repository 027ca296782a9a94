---- MODULE MCMrCollectives ----
EXTENDS MrCollectives
MCOutOfCores == {0, 1}
MCHashOf == <<0, 1, 2>>
OnRanks(a, b, c) == (0 :> a) @@ (1 :> b) @@ (2 :> c)
\* Several pages and an empty process; all pairs to one process, small and large; few pairs.
MCShares == {OnRanks(<<<<1, 1>>, <<2, 1>>, <<3, 2>>>>, <<>>, <<<<1, 2>>, <<2, 1>>, <<1, 1>>>>),
             OnRanks(<<<<1, 1>>, <<1, 1>>>>, <<<<1, 1>>, <<1, 1>>>>, <<<<1, 1>>, <<1, 1>>, <<2, 1>>>>),
             OnRanks(<<<<1, 3>>>>, <<<<1, 3>>>>, <<<<1, 3>>>>),
             OnRanks(<<<<1, 1>>>>, <<>>, <<<<2, 1>>>>)}
MCTask == <<<<<<1, 1>>>>, <<<<2, 1>>, <<3, 1>>>>, <<<<1, 1>>>>, <<<<1, 1>>>>>>
====

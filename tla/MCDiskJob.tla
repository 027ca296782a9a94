------------------------------- MODULE MCDiskJob -------------------------------
EXTENDS DiskJob
MCPart == (1 :> 0) @@ (2 :> 1)
\* Two lines, a second file and a directory; a line longer than a segment, to the end of a
\* page; an empty file; four segments; a directory without a word for one partition; two
\* files of one segment.
MCDirectories == {<<<<1, 2, 0>>, Directory, <<2>>>>, <<<<2, 1, 1, 1, 1>>, <<1, 2>>>>,
                  <<<<1>>, <<>>, <<2>>>>, <<<<1, 2, 0, 2, 0, 2, 0, 2>>>>, <<<<1, 0, 1>>>>,
                  <<<<1, 2>>, <<2, 1>>>>}
================================================================================

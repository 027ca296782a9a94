---------------------------- MODULE DirectorySource ----------------------------
(***************************************************************************)
(* datasource::directory_iterator with the memory-mapped file_handler      *)
(* (datasource.hpp): the files of a directory, one after the other, each   *)
(* handed out in segments of about Segment characters that end where a     *)
(* line ends.  The state is a record of its own; asking for a key and      *)
(* getting its data are two calls, each under a lock of its own.           *)
(***************************************************************************)
EXTENDS Naturals, Sequences, FiniteSetsExt

CONSTANTS Segment,      \* specification.max_file_segment_size
          MapPage,      \* characters of a page of a mapping
          NoFile,       \* the empty name
          Directory     \* an entry that is not a file

Newline == 0

\* dir: [1..n -> Directory or the characters of a file]
NoSource == [next |-> 1, current |-> NoFile, opened |-> {}, offset |-> <<>>]
Opening(dir) == [NoSource EXCEPT !.offset = [i \in DOMAIN dir |-> 0]]

\* setup_key: the file that is being read, or the next one of the directory.
FilesLeft(src, dir) == {i \in DOMAIN dir : i >= src.next /\ dir[i] # Directory}
HasKey(src, dir) == src.current # NoFile \/ FilesLeft(src, dir) # {}
KeyOf(src, dir) == IF src.current # NoFile THEN src.current ELSE Min(FilesLeft(src, dir))
AfterKey(src, dir) == IF src.current # NoFile THEN src ELSE [src EXCEPT !.next = KeyOf(src, dir) + 1]
\* Without a file left the directories at the end have been skipped.
AtEnd(src, dir) == [src EXCEPT !.next = Len(dir) + 1]

AssertFailsIdle(src, key) == src.current # key

\* get_data asserts that the file being read is the one asked for ...
AssertFails(src, key) == src.current \notin {NoFile, key}
\* ... and opens the file otherwise: an empty file cannot be mapped, and a file that is
\* open already not again.  Its name stays the current one.
OpenFails(src, dir, key) == src.current = NoFile /\ (key \in src.opened \/ dir[key] = <<>>)
AfterFailure(src, key) == [src EXCEPT !.current = key]

\* The next call for a file that could not be mapped finds its entry without data: it gives
\* an empty segment and puts the file away.
Unmapped(src, key) == src.current = key /\ key \notin src.opened
PutAway(src) == [src EXCEPT !.current = NoFile]

\* The end of the segment: on to a line end unless the file ends first.  The loop looks at
\* the character before it looks at the offset, at the end of the file one past it.
LineEnd(text, from) == Min({i \in from..Len(text) : i = Len(text) \/ text[i + 1] = Newline})
Reach(src, dir, key) == Min({src.offset[key] + Segment, Len(dir[key])})
SegmentEndAnywhere(src, dir, key) == Reach(src, dir, key)

SegmentEnd(src, dir, key) == LineEnd(dir[key], Reach(src, dir, key))
Overruns(src, dir, key) ==
  /\ Reach(src, dir, key) < Len(dir[key]) /\ SegmentEnd(src, dir, key) = Len(dir[key])
  /\ Len(dir[key]) % MapPage = 0
SegmentOf(src, dir, key) == SubSeq(dir[key], src.offset[key] + 1, SegmentEnd(src, dir, key))

AfterDataKeepsFile(src, dir, key) ==
  [src EXCEPT !.current = key, !.opened = @ \union {key}, !.offset[key] = SegmentEnd(src, dir, key)]

\* A file is put away when the segment itself reaches its end; a line that does leaves
\* it for another, empty segment.
AfterData(src, dir, key) ==
  [src EXCEPT !.current = IF Reach(src, dir, key) = Len(dir[key]) THEN NoFile ELSE key,
              !.opened = @ \union {key},
              !.offset[key] = SegmentEnd(src, dir, key)]
===============================================================================

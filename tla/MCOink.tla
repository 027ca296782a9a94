------------------------------- MODULE MCOink -------------------------------
(***************************************************************************)
(* Scripts of three lines for two ranks.  "f" is a file of four lines of   *)
(* four characters, "h" has two lines, "e" none; "d" is a directory with a *)
(* hidden entry, a dangling link and a directory in it, "l" a file of      *)
(* names, "b" one with a blank line; "g%" is a file of each rank; "z" is   *)
(* an empty directory.                                                     *)
(***************************************************************************)
EXTENDS Oink

Path(name) == [dir |-> None, name |-> name, rank |-> None, copy |-> None]
Place(name, r) == [dir |-> None, name |-> name, rank |-> r, copy |-> None]
File(size, seps, lines) ==
    [kind |-> "file", size |-> size, seps |-> seps, lines |-> lines]
Folder(entries) == [kind |-> "dir", size |-> 0, seps |-> {}, entries |-> entries]
Entries(hidden, name) == [hidden |-> hidden, path |-> Path(name)]

MCDisk ==
    Path("f") :> File(16, {3, 7, 11, 15}, <<>>)
    @@ Path("e") :> File(0, {}, <<>>)
    @@ Path("h") :> File(11, {5, 10}, <<>>)
    @@ Path("b") :> File(2, {0, 1}, <<Blank>>)
    @@ Path("l") :> File(4, {1, 3}, <<Path("f"), Path("m")>>)
    @@ Place("g", 0) :> File(3, {2}, <<>>)
    @@ Place("g", 1) :> File(3, {2}, <<>>)
    @@ Path("s") :> Folder(<<Entries(FALSE, "f")>>)
    @@ Path("z") :> Folder(<<>>)
    @@ Path("p") :> [kind |-> "pipe", size |-> 0, seps |-> {}]
    @@ Path("d") :> Folder(<<Entries(TRUE, "e"), Entries(FALSE, "f"),
                          Entries(FALSE, "m"), Entries(FALSE, "s")>>)

Pattern(name, percent) == [name |-> name, percent |-> percent, star |-> FALSE]
MCStrings ==
    [t \in {"a", "b", "d", "e", "f", "l", "p", "z"} |-> <<Pattern(t, FALSE)>>]
    @@ "g" :> <<Pattern("g", TRUE)>>
    @@ "v_y" :> <<Pattern("f", FALSE), Pattern("h", FALSE)>>
    @@ "v_x" :> <<Pattern("f", FALSE), Pattern("e", FALSE)>>

MCSettings ==
    {[self |-> TRUE], [multi |-> 2], [mmode |-> 1], [substitute |-> 2]}

Whole(text, self, recurse, readfile) ==
    [text |-> text, self |-> self, recurse |-> recurse, readfile |-> readfile,
     split |-> "no", nmap |-> 0, delta |-> 0, known |-> TRUE]
Split(text, split, n, delta) ==
    [text |-> text, self |-> FALSE, recurse |-> FALSE, readfile |-> FALSE,
     split |-> split, nmap |-> n, delta |-> delta, known |-> TRUE]
Unknown(call) == [call EXCEPT !.known = FALSE]
MCMapLines ==
    {Whole("d", TRUE, FALSE, FALSE), Whole("d", FALSE, TRUE, FALSE),
     Whole("l", FALSE, FALSE, TRUE), Whole("b", FALSE, FALSE, TRUE),
     Whole("p", FALSE, FALSE, FALSE),
     Split("v_y", "char", 3, 4), Split("v_x", "char", 3, 4), Split("v_x", "char", 4, 3),
     Split("v_x", "char", 9, 2), Split("v_x", "string", 2, 5),
     Split("v_x", "string", 3, 3), Split("f", "char", 2, 4),
     Split("e", "char", 2, 4), Split("d", "char", 1, 4), Split("z", "char", 0, 4),
     Unknown(Whole("d", TRUE, FALSE, FALSE)), Unknown(Split("v_x", "char", 9, 2))}
=============================================================================

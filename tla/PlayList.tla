------------------------------ MODULE PlayList -------------------------------
(***************************************************************************)
(* ShowServer/playlist.cpp: how many songs the lines of a playlist file    *)
(* give to each of the three lists.  A line is a section's header, a       *)
(* brace, an entry, or an entry whose number of frames is 0 or no number.  *)
(***************************************************************************)
EXTENDS Naturals, Sequences, FiniteSets

Lists == {"prologue", "body", "epilogue"}
Lines == {"[prologue]", "[body]", "[epilogue]", "[other]", "{", "}", "entry", "empty entry"}

\* The list that ptr points to after a header or a closing brace.
ListOf(line) ==
    CASE line = "[prologue]" -> "prologue"
      [] line = "[body]"     -> "body"
      [] line = "[epilogue]" -> "epilogue"
      [] OTHER               -> "none"

\* The list that ptr points to at line i: the last of those lines before it.
ListAt(lines, i) ==
    LET before == {j \in 1 .. i - 1 : lines[j] \notin {"{", "entry", "empty entry"}}
    IN IF before = {} THEN "none"
       ELSE ListOf(lines[CHOOSE j \in before : \A k \in before : k <= j])

\* PlayList::load: the entries with a number of frames, each in its list.
PlayListLoad(lines) ==
    [l \in Lists |-> Cardinality({i \in 1 .. Len(lines) : lines[i] = "entry" /\ ListAt(lines, i) = l})]
=============================================================================

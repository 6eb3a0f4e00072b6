---------------------------- MODULE MCRoundTrip ----------------------------
(***************************************************************************)
(* Sources that do not include one another, under all pairs of names of up *)
(* to three characters and all lists of three names of up to two; and      *)
(* files in two directories that include one another in all ways, by       *)
(* straight and by roundabout paths, given in all ways; files above one    *)
(* another; and files that are empty.                                      *)
(***************************************************************************)
EXTENDS RoundTrip

CONSTANTS a, b, p, q, dot

MCUp == <<dot, dot>>
MCHere == <<dot>>

Names(max) == UNION {[1 .. n -> {a, b, Slash}] : n \in 1 .. max}
MCInputs == {list \in [1 .. 1 -> Names(3)] \cup [1 .. 2 -> Names(3)] \cup [1 .. 3 -> Names(2)] :
                \A m, n \in DOMAIN list : list[m] = list[n] => m = n}

(* The n-th name of a list comes how[n] and includes includes[n].          *)
Program(list, start, how, includes) ==
    LET index(name) == CHOOSE n \in DOMAIN list : list[n] = name IN
    [texts |-> SelectSeq(list, LAMBDA name : how[index(name)] = "idl"),
     entry |-> start,
     files |-> [name \in {list[n] : n \in DOMAIN list} |->
                   [how |-> how[index(name)], includes |-> includes[index(name)],
                    empty |-> FALSE]]]
All(list, how) == [n \in DOMAIN list |-> how]
Alone(list) == Program(list, list[1], All(list, "idl"), All(list, <<>>))

PA == <<p, Slash, a>>
PB == <<p, Slash, b>>
PQA == <<p, Slash, q, Slash, a>>
UpTo(path) == Up \o <<Slash>> \o path
Paths == {<<>>, <<Here \o <<Slash, b>>>>, <<UpTo(PB)>>, <<UpTo(<<b>>)>>,
          <<<<q, Slash, a>>, <<b>>>>, <<UpTo(<<a>>), UpTo(UpTo(PB))>>}
Hows == {<<how, how, how>> : how \in {"file", "idl", "ast"}}
            \cup {<<"ast", "file", "file">>, <<"idl", "ast", "file">>}
Including(directory) ==
    LET list == <<directory \o PA, directory \o PB, directory \o PQA>>
    IN  {Program(list, list[first], how, includes) :
            first \in {1, 3}, how \in Hows, includes \in [1 .. 3 -> Paths]}

(* Files above the one they are included from, and above each other.       *)
Above == LET list == <<<<a>>, UpTo(<<b>>), UpTo(UpTo(PB))>>
         IN  {Program(list, list[first], All(list, how), includes) :
                 first \in {1, 2, 3}, how \in {"file", "idl"},
                 includes \in [1 .. 3 -> {<<>>, <<UpTo(<<b>>)>>, <<UpTo(PB)>>}]}

(* The entry point is not normal: it is another file when it is included.  *)
Twice == LET list == <<Here \o <<Slash, a>>, <<a>>, <<b>>>>
         IN  {Program(list, list[1], All(list, how), <<<<<<b>>>>, <<<<b>>>>, <<<<a>>>>>>) :
                 how \in {"file", "idl"}}

(* A tree whose name, shortened, is that of a text.                        *)
Mistaken == {Program(<<PA, <<q, Slash, a>>>>, <<q, Slash, a>>, <<"file", "ast">>,
                   <<<<>>, <<UpTo(PA)>>>>)}

(* Some of the files that include nothing are empty.                       *)
Hollow(program) ==
    {name \in DOMAIN program.files :
        program.files[name].includes = <<>> /\ program.files[name].how # "ast"}
Emptied(program) ==
    {[program EXCEPT !.files = [name \in DOMAIN @ |->
         [@[name] EXCEPT !.empty = name \in empty]]] : empty \in SUBSET Hollow(program)}
Empty(directory) ==
    LET list == <<directory \o PA, directory \o PB, directory \o PQA>>
    IN  UNION {Emptied(Program(list, list[1], how, includes)) : how \in Hows,
                  includes \in [1 .. 3 -> {<<>>, <<<<b>>>>, <<<<q, Slash, a>>, <<b>>>>}]}

MCPrograms == {Alone(list) : list \in MCInputs} \cup Including(<<>>)
                \cup Including(<<Slash>>) \cup Including(<<q, p, Slash>>)
                \cup Above \cup Twice \cup Mistaken
                \cup Empty(<<>>) \cup Empty(<<q, p, Slash>>)
=============================================================================

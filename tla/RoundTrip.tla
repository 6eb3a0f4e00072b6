----------------------------- MODULE RoundTrip -----------------------------
(***************************************************************************)
(* getSources and toJSON of thrift.js: a Thrift gives the texts or the     *)
(* syntax trees it was made of, under names without the directory all of   *)
(* them share, and another Thrift is made of what it gave.  Composes       *)
(* CommonPath, which finds the directory, with the walk of loadSync over   *)
(* the includes and with path.join, which names what they include.         *)
(*                                                                         *)
(* A file is [how, includes, empty]: it comes as "idl" or "ast" with the   *)
(* options, or is read as a "file"; its includes are paths; it is empty if *)
(* its text is ''.  (What comes twice, or comes as '' and is read, is left *)
(* out.)                                                                   *)
(***************************************************************************)
EXTENDS CommonPath

CONSTANTS Up, Here,     \* the parts ".." and "." of a path
          Programs,     \* [texts, files, entry]: Object.keys(options.idls),
                        \* the files by name, options.entryPoint
          Generations   \* bound: how many Thrifts are made

VARIABLES files,        \* what this Thrift is made of, by name
          entry,        \* this.filename
          keys,         \* Object.keys(this.idls)
          visited,      \* this.parsed
          todo,         \* what loadSync has still to be called for, in order
          phase,        \* "load", "made", "asked" for sources, "refused" by
                        \* the constructor, or what was asked has "thrown"
          trees,        \* toJSON was called last, not getSources
          generation,
          origin        \* the Thrift that gave the sources, and what for

thriftVars == <<files, entry, keys, visited, todo, phase, trees, generation, origin>>
commonVars == <<strings, i, j, length, comparing, end>>
allVars == <<thriftVars, commonVars>>

(* longestCommonPath is called with a list of names.                       *)
CommonPathOf(list) == /\ strings' = list /\ i' = 1 /\ j' = 0
                      /\ length' = Len(list[1])
                      /\ comparing' = FALSE /\ end' = Unset
-----------------------------------------------------------------------------
(* path.dirname and path.join, which normalizes.  The parts of a path are  *)
(* what is between slashes.                                                *)
Piece == Seq(Char \ {Slash}) \ {<<>>}
WithChar(parts, path, n) ==
    IF path[n] = Slash THEN parts
    ELSE IF n = 1 \/ path[n - 1] = Slash THEN Append(parts, <<path[n]>>)
    ELSE [parts EXCEPT ![Len(parts)] = Append(@, path[n])]
Parts(path) ==
    LET parts[n \in 0 .. Len(path)] ==
            IF n = 0 THEN <<>> ELSE WithChar(parts[n - 1], path, n)
    IN  parts[Len(path)]
Last(path) == path[Len(path)]

Climb(parts, absolute) ==
    IF parts # <<>> /\ Last(parts) # Up THEN SubSeq(parts, 1, Len(parts) - 1)
    ELSE IF absolute THEN parts
    ELSE Append(parts, Up)
Enter(parts, part, absolute) ==
    CASE part = Here -> parts
      [] part = Up -> Climb(parts, absolute)
      [] OTHER -> Append(parts, part)
Normal(parts, absolute) ==
    LET normal[n \in 0 .. Len(parts)] ==
            IF n = 0 THEN <<>> ELSE Enter(normal[n - 1], parts[n], absolute)
    IN  normal[Len(parts)]

WithPart(path, parts, n) == IF n = 1 THEN parts[1] ELSE path \o <<Slash>> \o parts[n]
Slashed(parts) ==
    LET slashed[n \in 0 .. Len(parts)] ==
            IF n = 0 THEN <<>> ELSE WithPart(slashed[n - 1], parts, n)
    IN  slashed[Len(parts)]

Ends(path) == path # <<>> /\ Last(path) = Slash
Named(parts, absolute, ends) ==
    LET shown == IF parts = <<>> /\ ~absolute THEN <<Here>> ELSE parts
    IN  (IF absolute THEN <<Slash>> ELSE <<>>) \o Slashed(shown)
            \o (IF shown # <<>> /\ ends THEN <<Slash>> ELSE <<>>)

Directory(name) ==
    LET parts == Parts(name)
    IN  IF parts = <<>> THEN <<>> ELSE SubSeq(parts, 1, Len(parts) - 1)
Join(name, path) ==
    Named(Normal(Directory(name) \o Parts(path), Absolute(name)), Absolute(name), Ends(path))

(* An included path is not absolute, and its last part is the name of a    *)
(* file; others are refused.  (With an alias the last part may be "..";    *)
(* that is left out.)                                                      *)
Includable == {path \in Seq(Char) :
                  /\ ~Absolute(path) /\ Parts(path) # <<>>
                  /\ Last(Parts(path)) \notin {Up, Here}}

ASSUME PartsAssumption == Up \in Piece /\ Here \in Piece /\ Up # Here
ASSUME ProgramsAssumption ==
    \A program \in Programs :
        /\ program.texts \in Seq(Seq(Char))
        /\ {program.texts[n] : n \in DOMAIN program.texts} =
               {name \in DOMAIN program.files : program.files[name].how = "idl"}
        /\ \A name \in DOMAIN program.files :
              /\ name \in Seq(Char)
              /\ program.files[name] \in [how : {"idl", "ast", "file"},
                                          includes : Seq(Includable), empty : BOOLEAN]
              /\ program.files[name].empty =>
                    program.files[name].how # "ast" /\ program.files[name].includes = <<>>
        /\ program.entry \in Seq(Char) /\ program.entry # <<>>
-----------------------------------------------------------------------------
RoundTripInit ==
    /\ \E program \in Programs :
        /\ files = program.files
        /\ entry = program.entry
        /\ keys = program.texts
        /\ todo = <<program.entry>>
        /\ strings = <<program.entry>> /\ length = Len(program.entry)
    /\ visited = {} /\ phase = "load" /\ trees = FALSE
    /\ generation = 1 /\ origin = <<>>
    /\ i = 1 /\ j = 0 /\ comparing = FALSE /\ end = Unset

(* loadSync looks for a text or a tree that is truthy.  The text of an     *)
(* empty file is not: once read it is parsed, but given it is as if there  *)
(* were none.  Fault: it looks for the name.                               *)
IsNamed(name) == name \in DOMAIN files
Found(name) == name \in DOMAIN files /\ (files[name].empty => files[name].how # "idl")

(* loadSync: a file is visited once; one that is read is among the idls    *)
(* from then on.  Where there is none the constructor throws.              *)
Visit ==
    /\ phase = "load" /\ todo # <<>>
    /\ LET name == Head(todo) IN
       IF name \in visited
       THEN todo' = Tail(todo) /\ UNCHANGED <<keys, visited, phase>>
       ELSE IF ~Found(name)
       THEN phase' = "refused" /\ UNCHANGED <<keys, visited, todo>>
       ELSE LET paths == files[name].includes IN
            /\ visited' = visited \cup {name}
            /\ keys' = IF files[name].how = "file" THEN Append(keys, name) ELSE keys
            /\ todo' = [n \in DOMAIN paths |-> Join(name, paths[n])] \o Tail(todo)
            /\ UNCHANGED phase
    /\ UNCHANGED <<files, entry, trees, generation, origin, commonVars>>

Make == /\ phase = "load" /\ todo = <<>>
        /\ phase' = "made"
        /\ UNCHANGED <<files, entry, keys, visited, todo, trees, generation, origin,
                       commonVars>>

(* getSources or toJSON.  Without idls there is no first name to look at.  *)
Ask == /\ phase = "made" /\ generation < Generations
       /\ trees' \in BOOLEAN
       /\ IF keys = <<>> THEN phase' = "thrown" /\ UNCHANGED commonVars
          ELSE phase' = "asked" /\ CommonPathOf(keys)
       /\ UNCHANGED <<files, entry, keys, visited, todo, generation, origin>>

FindCommonPath == phase = "asked" /\ Next /\ UNCHANGED thriftVars

(* It gives the sources, and a Thrift is made of them, with nothing to     *)
(* read from.  Of a file that was not visited there is no tree; a tree is  *)
(* never empty.  Fault: the entry point keeps its name.                    *)
Shortened(name) == SubSeq(name, end + 2, Len(name))
EntryAsItWas == entry
EntryGiven == Shortened(entry)
Given == {key \in {keys[n] : n \in DOMAIN keys} : trees => key \in visited}
KeysGiven == [n \in DOMAIN keys |-> Shortened(keys[n])]

MakeOfSources ==
    /\ phase = "asked" /\ end # Unset
    /\ origin' = [files |-> files, entry |-> entry, keys |-> keys, visited |-> visited]
    /\ files' = [name \in {Shortened(key) : key \in Given} |->
                    LET key == CHOOSE key \in Given : Shortened(key) = name
                    IN  [how |-> IF trees THEN "ast" ELSE "idl",
                         includes |-> files[key].includes,
                         empty |-> IF trees THEN FALSE ELSE files[key].empty]]
    /\ entry' = EntryGiven
    /\ keys' = IF trees THEN <<>> ELSE KeysGiven
    /\ visited' = {} /\ todo' = <<EntryGiven>>
    /\ phase' = IF EntryGiven = <<>> THEN "refused" ELSE "load"
    /\ generation' = generation + 1
    /\ UNCHANGED <<trees, commonVars>>

RoundTripNext == Visit \/ Make \/ Ask \/ FindCommonPath \/ MakeOfSources

RoundTripSpec == RoundTripInit /\ [][RoundTripNext]_allVars
-----------------------------------------------------------------------------
Common == SubSeq(longest, 1, end + 1)

(* An include climbs if some directory on its way is not below the common  *)
(* one, or is above the root, also if it comes back.  What is above a      *)
(* common directory that is itself the one above, or none, has a name      *)
(* still.                                                                  *)
IsBelow(way, parts) == Len(parts) <= Len(way) /\ SubSeq(way, 1, Len(parts)) = parts
Climbs(name, path) ==
    \E n \in 1 .. Len(Parts(path)) :
        LET way == Normal(Directory(name) \o SubSeq(Parts(path), 1, n), FALSE)
        IN  \/ ~IsBelow(way, Parts(Common))
            \/ Absolute(name) /\ IsBelow(way, <<Up>>)

(* A Thrift can be made of the sources if all that the other one visited   *)
(* came as text, if no include climbs, if its entry point is not named     *)
(* like a directory, and if it gave trees or no text of what it visited is *)
(* empty.                                                                  *)
Texts == {origin.keys[n] : n \in DOMAIN origin.keys}
Complete ==
    /\ origin.visited \subseteq Texts
    /\ \A name \in origin.visited : \A n \in DOMAIN origin.files[name].includes :
          ~Climbs(name, origin.files[name].includes[n])
    /\ origin.entry # Common
    /\ \A name \in origin.visited : origin.files[name].empty => trees

(* A name is normal if path.normalize leaves it as it is.  A text that is  *)
(* given with the options under one that is not ("d/../e") is found by no  *)
(* include, but where a directory is taken off its name ("../e") it may be *)
(* mistaken for what an include climbs to.                                 *)
Alike == \A name, other \in Texts : Absolute(name) => Absolute(other)
IsNormal(name) ==
    /\ \A n \in 1 .. Len(name) - 1 : name[n] = Slash => name[n + 1] # Slash
    /\ \A n \in DOMAIN Parts(name) :
          /\ Parts(name)[n] # Here
          /\ Parts(name)[n] = Up =>
                ~Absolute(name) /\ \A m \in 1 .. n : Parts(name)[m] = Up
Unmistakable == \/ Common = <<>>
                \/ \A name \in Texts : IsNormal(name)
                \/ \A name \in Texts : origin.files[name].includes = <<>>

(* The Thrift that is made of what another one gave has the files of that  *)
(* one, each under its shorter name and each including what it included;   *)
(* and of sources that cannot do this none is made.  It gives its own      *)
(* sources as it got them, no directory is left to take off; but a Thrift  *)
(* of nothing but trees throws when it is asked.  (Texts that are given    *)
(* with the options but not visited may have names that are not alike; an  *)
(* entry point that was given as a tree is not among the sources, and its  *)
(* shortened name may be that of another file.)                            *)
RoundTrips ==
    (generation > 1 /\ Alike) =>
        /\ (phase = "made" /\ origin.entry \in Texts /\ Unmistakable) =>
              /\ Complete
              /\ visited = {Shortened(name) : name \in origin.visited}
              /\ entry = Shortened(origin.entry)
        /\ (phase = "refused" /\ Unmistakable) => ~Complete
        /\ (phase = "asked" /\ end # Unset /\ Unmixed) => Common = <<>>
        /\ (phase = "thrown") => \A name \in visited : files[name].how = "ast"
=============================================================================

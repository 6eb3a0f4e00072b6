---------------------------- MODULE IncludeGraph ----------------------------
(***************************************************************************)
(* What a load starts from: the entry point, and what each file would give *)
(* when it is read.  Shared by the asynchronous loader (ThriftLoad), the   *)
(* synchronous one (ThriftLoadSync) and what both promise (LoadPromise).   *)
(***************************************************************************)
EXTENDS Sequences, Naturals

CONSTANTS File,      \* names of files, after path.join
          Root,      \* options.entryPoint
          Other,     \* a header or definition that is not an include
          Sources    \* the file systems and option objects considered

(* A file as the loaders tell it apart: how it was handed over (option     *)
(* idls, option asts, or to be read, as one given as '' also is), whether  *)
(* reading, parsing and the check of its includes go well, and its headers *)
(* and definitions.                                                        *)
SourceType ==
    [given : {"nothing", "idl", "ast"},
     status : {"good", "unreadable", "malformed", "badInclude"},
     defs : Seq(File \cup {Other})]

ASSUME RootAssumption == Root \in File /\ Other \notin File
ASSUME SourcesAssumption ==
    \A source \in Sources :
        /\ DOMAIN source = File
        /\ \A f \in File : /\ source[f].given \in {"nothing", "idl", "ast"}
                           /\ source[f].defs \in Seq(File \cup {Other})
                           /\ source[f].given # "nothing" =>
                                source[f].status # "unreadable"
                           /\ source[f].given = "ast" =>
                                source[f].status # "malformed"

Included(source, f) ==
    {source[f].defs[i] : i \in 1 .. Len(source[f].defs)} \ {Other}

(* A set of files that holds what its good members include.                *)
Closed(source, S) ==
    \A f \in S : source[f].status = "good" => Included(source, f) \subseteq S

(* The files a load of the entry point must visit.                         *)
Reachable(source) ==
    {f \in File : \A S \in SUBSET File :
                      (Root \in S /\ Closed(source, S)) => f \in S}

Loadable(source) == \A f \in Reachable(source) : source[f].status = "good"
=============================================================================

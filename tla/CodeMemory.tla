------------------------------ MODULE CodeMemory ------------------------------
(***************************************************************************)
(* The index of the code memory (code_memory.py), kept while the files it  *)
(* has read are edited.  A source that parses is the signatures of what it *)
(* defines and its calls, each made within a definition or at the level    *)
(* of the module, by name: an imported name is called by another one,      *)
(* which no symbol has, and so does not occur here.                        *)
(***************************************************************************)
EXTENDS Integers, FiniteSets

CONSTANTS
  SourceFile,
  Unparsable,  \* a source that ast.parse raises SyntaxError on
  ModuleLevel, \* where a call is made that no definition holds
  NoSignature, \* of a class
  Sources,     \* what a file may hold
  MaxWrites    \* bound of the runs

VARIABLES
  cmDisk,      \* the files, Unparsable or a source
  cmIndex,     \* symbols, edges, and of each file the source that was indexed last
  cmMarred,    \* the files that did not parse when they were last read anew
  cmWrites     \* edits so far

cmVars == <<cmDisk, cmIndex, cmMarred, cmWrites>>

Symbols(file, source) ==
  {[file |-> file, name |-> n, signature |-> source.defs[n]] : n \in DOMAIN source.defs}

Edges(file, source) ==
  {[file |-> file, from |-> c.from, to |-> c.to, args |-> c.args] : c \in source.calls}

\* The index is empty, whatever the files hold.
IndexesNothing(disk) ==
  /\ cmDisk = disk
  /\ cmIndex = [symbols |-> {}, edges |-> {}, hashes |-> [f \in SourceFile |-> Unparsable]]
  /\ cmMarred = {} /\ cmWrites = 0

CmInit == \E disk \in [SourceFile -> Sources] : IndexesNothing(disk)

\* A file is written by whoever works on it.
WriteSource ==
  /\ cmWrites < MaxWrites /\ cmWrites' = cmWrites + 1
  /\ \E f \in SourceFile : \E source \in Sources \cup {Unparsable} : cmDisk' = [cmDisk EXCEPT ![f] = source]
  /\ UNCHANGED <<cmIndex, cmMarred>>

\* Mutant of _remove_file_symbols: the edges stay.
_remove_file_symbols_alone(index, file) ==
  [index EXCEPT !.symbols = {s \in @ : s.file # file}]

\* A call that no definition of the file holds stays: its source is the file.
_remove_file_symbols(index, file) ==
  [index EXCEPT !.symbols = {s \in @ : s.file # file},
                !.edges = {e \in @ : e.file # file \/ e.from = ModuleLevel}]

_add_file_artifacts(index, file, source) ==
  [symbols |-> index.symbols \cup Symbols(file, source),
   edges |-> index.edges \cup Edges(file, source),
   hashes |-> [index.hashes EXCEPT ![file] = source]]

\* A file that has changed is read; if it does not parse it has no symbols, and
\* keeps the hash that it was indexed with.
index_file ==
  /\ \E f \in SourceFile :
       /\ cmIndex.hashes[f] # cmDisk[f] \/ (f \notin cmMarred /\ cmDisk[f] = Unparsable)
       /\ LET removed == _remove_file_symbols(cmIndex, f)
          IN IF cmDisk[f] = Unparsable
               THEN cmIndex' = removed /\ cmMarred' = cmMarred \cup {f}
             ELSE cmIndex' = _add_file_artifacts(removed, f, cmDisk[f]) /\ cmMarred' = cmMarred \ {f}
  /\ UNCHANGED <<cmDisk, cmWrites>>

CmNext == WriteSource \/ index_file

CmSpec == CmInit /\ [][CmNext]_cmVars
-----------------------------------------------------------------------------
\* A name stands for a symbol if it is the only one so called.
_resolve_target_symbol(index, name) ==
  LET matching == {s \in index.symbols : s.name = name}
  IN IF Cardinality(matching) = 1 THEN matching ELSE {}

audit_signature_mismatches(index) ==
  {e \in index.edges : \E s \in _resolve_target_symbol(index, e.to) :
     s.signature # NoSignature /\ e.args \notin s.signature.least..s.signature.most}

\* An index into which the files went once, as they were when they were last indexed.
Fresh ==
  LET indexed == {f \in SourceFile : cmIndex.hashes[f] # Unparsable}
  IN [symbols |-> UNION {Symbols(f, cmIndex.hashes[f]) : f \in indexed},
      edges |-> UNION {Edges(f, cmIndex.hashes[f]) : f \in indexed},
      hashes |-> cmIndex.hashes]

\* No call that does not match its signature is missed, in whatever order the files
\* were edited and indexed, while none of them has come back from a syntax error.
NoMismatchIsMissed ==
  cmMarred = {} => audit_signature_mismatches(Fresh) \subseteq audit_signature_mismatches(cmIndex)

\* And none is reported that is no longer made, unless at the level of a module.
MismatchesAreMade ==
  cmMarred = {} =>
    \A e \in audit_signature_mismatches(cmIndex) :
      e.from # ModuleLevel => e \in audit_signature_mismatches(Fresh)

\* The index tells the mismatches that are in the sources.
AuditFollowsTheSources == NoMismatchIsMissed /\ MismatchesAreMade
=============================================================================

---------------------------- MODULE MCCallGraph ----------------------------
EXTENDS CallGraph, DsfsPath, TLC

CONSTANTS transform, f, g, builtin, len

MCFuncNames == {transform, f, g}
MCUnknown == {len}

\* Two filesystem types ("ip", "me") and the mux type "x", as characters;
\* hashes that share characters with the types ("i" is a proper prefix of
\* "ip"); the empty name of PackageFileUnknown and one file name.
MCKnownFSTypes == << << "i", "p" >>, << "m", "e" >> >>
MCFilestoreType == << "x" >>
MCFilenames == {<< >>, << "d" >>}
MCHashes == {<< "Q", "m" >>, << "i" >>, << "e", "m" >>}

(* GetHashBase returns the hash segment of every dataset path, whatever   *)
(* its slashes, filesystem type prefix and trailing package file: the     *)
(* character-wise TrimPrefix and the two TrimLeft calls agree with a      *)
(* segment-wise reading.  (A constant, evaluated once.)                    *)
HashBaseIsHashSegment == Analyzed => HashBaseExact

(* A package file path of any filesystem but the mux one can be rebased   *)
(* on a sibling file: PackageFilepath applied to the path it returned     *)
(* gives the path it would have returned for the original.  (On the mux   *)
(* filesystem the name is appended to the path as given, so the second    *)
(* call nests one file under the other.)                                   *)
PackageFilepathRebases == Analyzed => RebaseExact
=============================================================================

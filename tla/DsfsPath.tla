------------------------------ MODULE DsfsPath ------------------------------
(***************************************************************************)
(* Package file paths: GetHashBase and PackageFilepath of                 *)
(* src/base/dsfs/package.go.  A Go string is a sequence of characters;    *)
(* strings.TrimLeft, strings.TrimPrefix and strings.Split(_, "/")[0] are  *)
(* translated by what they do to that sequence, character by character,   *)
(* because TrimPrefix strips characters, not path segments.               *)
(*                                                                         *)
(* muxfs.KnownFSTypes() and muxfs.FilestoreType come from the qfs         *)
(* dependency, outside src/: they are constants, the known types in the   *)
(* order the list gives them.                                              *)
(***************************************************************************)
EXTENDS Naturals, Sequences, SequencesExt

CONSTANTS
    KnownFSTypes,   \* muxfs.KnownFSTypes(): a sequence of type names
    FilestoreType,  \* muxfs.FilestoreType, the mux filesystem's type
    Filenames,      \* the range of the filenames map, "" included
    Hashes          \* content hashes a dataset path carries

Slash == "/"

(* The paths are of the form the code relies on: a hash is never empty,  *)
(* holds no "/" and does not begin with a known type name (a CID begins   *)
(* "Qm" or "bafy"); no known type is a prefix of a later one.             *)
ASSUME \A h \in Hashes :
          h # << >> /\ ~Contains(h, Slash)
          /\ \A i \in DOMAIN KnownFSTypes : ~IsPrefix(KnownFSTypes[i], h)
ASSUME \A i, j \in DOMAIN KnownFSTypes :
          i < j => ~IsPrefix(KnownFSTypes[i], KnownFSTypes[j])

\* strings.TrimLeft(in, "/"): drop every leading "/".
RECURSIVE TrimLeftSlash(_)
TrimLeftSlash(s) ==
    IF s # << >> /\ Head(s) = Slash THEN TrimLeftSlash(Tail(s)) ELSE s

\* strings.TrimPrefix(in, p): drop p once if in starts with it.
TrimPrefix(s, p) ==
    IF IsPrefix(p, s) THEN SubSeq(s, Len(p) + 1, Len(s)) ELSE s

\* strings.Split(in, "/")[0]: everything before the first "/".
FirstSegment(s) ==
    LET i == SelectInSeq(s, LAMBDA c : c = Slash)
    IN IF i = 0 THEN s ELSE SubSeq(s, 1, i - 1)

\* Mutant: the first TrimLeft left out.
GetHashBaseNoLeadingTrim(in) ==
    FirstSegment(TrimLeftSlash(FoldLeft(TrimPrefix, in, KnownFSTypes)))

(* GetHashBase: trim leading slashes, trim each known filesystem type as  *)
(* a prefix in list order, trim leading slashes again, keep the first     *)
(* segment.                                                                *)
GetHashBase(in) ==
    LET a == TrimLeftSlash(in)
        b == FoldLeft(TrimPrefix, a, KnownFSTypes)
    IN FirstSegment(TrimLeftSlash(b))

\* Mutant: the path joined in whole instead of its hash.
PackageFilepathWholePath(prefix, path, name) ==
    CASE prefix = FilestoreType -> path \o << Slash >> \o name
      [] prefix = << >>         -> path
      [] OTHER                  ->
           << Slash >> \o prefix \o << Slash >> \o path \o << Slash >> \o name

(* PackageFilepath(fs, path, pf) with prefix = fs.Type() and name =       *)
(* pf.String(): on a mux filesystem the name is appended to the path as   *)
(* given; an fs with no type returns the path; otherwise the path is      *)
(* rebuilt as "/" prefix "/" hash "/" name.                                *)
PackageFilepath(prefix, path, name) ==
    CASE prefix = FilestoreType -> path \o << Slash >> \o name
      [] prefix = << >>         -> path
      [] OTHER                  ->
           << Slash >> \o prefix \o << Slash >> \o GetHashBase(path)
                       \o << Slash >> \o name

-----------------------------------------------------------------------------
(* Reference: a path names its hash by segments.  Split on "/", drop the  *)
(* empty segments, skip a leading known type segment; the next segment is *)
(* the hash.                                                               *)
RECURSIVE Segments(_)
Segments(s) ==
    LET t == TrimLeftSlash(s)
        seg == FirstSegment(t)
    IN IF t = << >> THEN << >>
       ELSE << seg >> \o Segments(SubSeq(t, Len(seg) + 1, Len(t)))

HashSegment(p) ==
    LET segs == Segments(p)
        start == IF segs # << >> /\ segs[1] \in Range(KnownFSTypes) THEN 2 ELSE 1
    IN IF start <= Len(segs) THEN segs[start] ELSE << >>

\* The inputs: one or two leading slashes or none, an optional type segment
\* followed by one or two slashes, a hash, an optional package file name.
Leads == {<< >>, << Slash >>, << Slash, Slash >>}
TypeParts == {<< >>} \cup {t \o l : t \in Range(KnownFSTypes), l \in Leads \ {<< >>}}
Paths == {l \o t \o h \o r : l \in Leads, t \in TypeParts, h \in Hashes,
                           r \in {<< >>} \cup {<< Slash >> \o n : n \in Filenames}}

\* GetHashBase agrees with the segment-wise reading on every path.
HashBaseExact ==
    \A p \in Paths : GetHashBase(p) = HashSegment(p)

\* PackageFilepath applied to its own result names the sibling file.
RebaseExact ==
    \A prefix \in (Range(KnownFSTypes) \cup {<< >>}) \ {FilestoreType},
      p \in Paths, n1, n2 \in Filenames :
        PackageFilepath(prefix, PackageFilepath(prefix, p, n1), n2)
            = PackageFilepath(prefix, p, n2)
=============================================================================

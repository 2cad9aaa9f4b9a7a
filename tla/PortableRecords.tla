-------------------------- MODULE PortableRecords --------------------------
(***************************************************************************)
(* The portable records of an Agent Project on disk (internal/project).    *)
(*                                                                         *)
(* A record's content is a token; Catalog tells what the token decodes to  *)
(* and the path derived from it.  A path holds one token, a token that     *)
(* does not decode, or nothing.  A blob is content-addressed: its token    *)
(* has the only path that may hold it.                                     *)
(*                                                                         *)
(* A temporary file never has a name that discovery considers, so it is    *)
(* not part of the state: a publication that stops before its link leaves  *)
(* the records as they were.                                               *)
(***************************************************************************)
EXTENDS TaskReadiness, SequencesExt

CONSTANTS
    Contents,       \* what each token decodes to
    ManifestPath    \* the one fixed path of the project manifest

VARIABLES
    files,      \* the token each path holds
    control,    \* whether the control directory has entries
    source      \* the content of the workspace file an artifact is taken from

\* DecodeRecord as a function: what each content that passes its checks decodes to.
\* What MarshalRecord writes is such a content.
Catalog == Contents

NoFile == "none"
Junk == "junk"

\* RecordRelativePath and ArtifactBlobRelativePath.
Path(c) == Catalog[c].path
Paths == {Path(c) : c \in DOMAIN Catalog}

BlobPaths == {Path(c) : c \in {d \in DOMAIN Catalog : Catalog[d].type = "blob"}}

Decodes(c) == c \in DOMAIN Catalog

\* A manifest's registration event.
Registers(c, man) == Catalog[c].type = "event" /\ Catalog[c].ref = man /\ Catalog[c].kind = "registered"

\* What the layout and the records' own checks give: a path tells the type of
\* its record and, of a definition, the work package; a manifest has a
\* registration, a graph pins definitions, a blob is addressed by its content.
ASSUME CatalogAssumption ==
    /\ IsFiniteSet(DOMAIN Catalog) /\ {NoFile, Junk} \cap DOMAIN Catalog = {}
    /\ ManifestPath \in Paths
    /\ \A c \in DOMAIN Catalog :
        LET record == Catalog[c] IN
        /\ record.path \in Nat
        /\ record.type = "manifest" <=> record.path = ManifestPath
        /\ record.type = "manifest" => \E e \in DOMAIN Catalog : Registers(e, c)
        /\ record.kind = "registered" => record.type = "event" /\ Decodes(record.ref) /\ Catalog[record.ref].type = "manifest"
        /\ record.type = "graph" => \A d \in record.members : Decodes(d) /\ Catalog[d].type = "definition"
        /\ record.blob # NoFile =>
            record.type = "artifact" /\ Decodes(record.blob) /\ Catalog[record.blob].type = "blob" /\ record.content = record.blob
        /\ \A d \in DOMAIN Catalog :
            record.path = Catalog[d].path =>
                record.type = Catalog[d].type /\ (record.type = "definition" => record.wp = Catalog[d].wp)

\* isCanonicalCandidateShape: everything with a record's path but the blobs.
CandidatePaths == Paths \ BlobPaths

\* WalkDir's candidates in the order of their paths.
Discovered ==
    Sorted({p \in CandidatePaths : files[p] # NoFile}, LAMBDA p, q : p < q)

-----------------------------------------------------------------------------
(* publishRecord and PublishArtifactBlob                                   *)

\* What a publisher finds at the path of its record.
Found(c) ==
    CASE files[Path(c)] = NoFile -> "free"
      [] files[Path(c)] = c      -> "present"
      [] OTHER                   -> "conflict"

\* publishNoReplace: the link fails when the path is taken, and the caller
\* then looks at what took it.
PublishNoReplace(c) ==
    files' = IF Found(c) = "free" THEN [files EXCEPT ![Path(c)] = c] ELSE files

-----------------------------------------------------------------------------
(* PreflightProjectBootstrap                                               *)

\* The record that a manifest's registration event is.
Registration(man) == CHOOSE c \in DOMAIN Catalog : Registers(c, man)

\* inspectBootstrapManifest, inspectUnclaimedRoot and inspectRegistrationEvent.
\* A root without a manifest is blocked as soon as its control directory has
\* an entry.
Preflight(project) ==
    LET man == files[ManifestPath]
    IN  CASE man = NoFile -> IF control THEN "blocked" ELSE "ready"
          [] man = Junk -> "blocked"
          [] OTHER ->
                IF Catalog[man].project # project THEN "blocked"
                ELSE CASE Found(Registration(man)) = "present"  -> "initialized"
                       [] Found(Registration(man)) = "free"     -> "ready"
                       [] Found(Registration(man)) = "conflict" -> "blocked"
=============================================================================

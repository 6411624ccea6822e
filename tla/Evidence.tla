------------------------------ MODULE Evidence ------------------------------
(***************************************************************************)
(* Content-addressed evidence: the blob backends (crates/nomiso-blob), the *)
(* artifact and span rows that name blobs (surreal_store.rs), and the two  *)
(* flows that keep them in step, storing and relocating                    *)
(* (nomiso-memory/src/artifact.rs, nomiso-blob/src/relocate.rs).           *)
(*                                                                         *)
(* An object is named by the hash of its bytes.  A file backend installs   *)
(* it through a temporary file; a name that is not yet durable, and bytes  *)
(* that were not flushed, may be lost by an outage.  Objects may have been *)
(* corrupted before this behaviour begins.                                 *)
(***************************************************************************)
EXTENDS Integers, FiniteSets

CONSTANTS
  Actor,
  Files, Buckets,  \* backends: directories, object stores
  Bytes,           \* contents, each with its own hash
  Tenant,          \* owning scopes
  MaxArtifacts,    \* bound on artifact rows
  MaxOutages,      \* bound on outages
  Nothing

Backend == Files \cup Buckets
ArtifactId == 1..MaxArtifacts

ASSUME EvidenceAssumption ==
  /\ Files \cap Buckets = {} /\ MaxArtifacts \in Nat /\ MaxOutages \in Nat
  /\ Nothing \notin Tenant \cup Bytes \cup Backend

VARIABLES
  disk,       \* what each backend has under the name of each content
  artifacts,  \* the artifact rows
  spans,      \* the span rows
  work,       \* the call of each actor
  outages     \* how often every backend host lost power

evidenceVars == <<disk, artifacts, spans, work, outages>>

\* linked: flushed, under a name whose directory is not yet synced;
\* cached: not even flushed; torn: a name for bytes that were lost.
Object == {"absent", "cached", "linked", "whole", "rotten", "torn"}
Artifact == [scope : Tenant, blake3 : Bytes, location : Backend]
NoArtifact == [scope |-> Nothing, blake3 |-> Nothing, location |-> Nothing]

Work == [step : {"idle", "get", "put", "write", "flush", "rename", "sync", "lookup",
                 "create", "back", "rebind", "stored"},
         flow : {"store", "relocate"},
         scope : Tenant \cup {Nothing}, bytes : Bytes \cup {Nothing},
         from : Backend \cup {Nothing}, to : Backend \cup {Nothing},
         todo : SUBSET (ArtifactId \X Backend),  \* rows listed, not yet visited
         row : {0} \cup ArtifactId]

NoWork == [step |-> "idle", flow |-> "store", scope |-> Nothing, bytes |-> Nothing,
           from |-> Nothing, to |-> Nothing, todo |-> {}, row |-> 0]

Exists(b, x) == disk[b][x] # "absent"
\* get: the hash of what is read is compared with the name.
Readable(b, x) == disk[b][x] \in {"cached", "linked", "whole"}

\* A store nobody has used.
EvidenceEmpty ==
  /\ disk = [b \in Backend |-> [x \in Bytes |-> "absent"]]
  /\ artifacts = [a \in ArtifactId |-> NoArtifact]
  /\ spans = {} /\ outages = 0
  /\ work = [w \in Actor |-> NoWork]

\* An object may have been corrupted, and an artifact stored, long ago.
EvidenceInit ==
  /\ disk \in [Backend -> [Bytes -> {"absent", "whole", "rotten"}]]
  /\ \E rows \in SUBSET (Tenant \X Bytes) : \E at \in [rows -> Backend] :
       /\ Cardinality(rows) <= 1
       /\ \A r \in rows : disk[at[r]][r[2]] # "absent"
       /\ artifacts = [a \in ArtifactId |->
            IF a = 1 /\ rows # {}
            THEN LET r == CHOOSE x \in rows : TRUE
                 IN [scope |-> r[1], blake3 |-> r[2], location |-> at[r]]
            ELSE NoArtifact]
  /\ spans = {} /\ outages = 0
  /\ work = [w \in Actor |-> NoWork]

Set(w, job) == work' = [work EXCEPT ![w] = job]
Proceed(w, step) == Set(w, [work[w] EXCEPT !.step = step])
Put(b, x, object) == disk' = [disk EXCEPT ![b][x] = object]

-----------------------------------------------------------------------------
(* BlobStore::put, for both flows *)

AfterPut(w) == IF work[w].flow = "store" THEN "lookup" ELSE "back"

\* store_artifact: bytes first, the row after them.
StoreArtifact(w, s, x, b) ==
  /\ work[w].step \in {"idle", "stored"}
  /\ Set(w, [NoWork EXCEPT !.step = "put", !.scope = s, !.bytes = x, !.to = b])
  /\ UNCHANGED <<disk, artifacts, spans, outages>>

\* An existing name is success, whatever is behind it.
PutSkips(w) ==
  /\ work[w].step = "put" /\ work[w].to \in Files
  /\ Exists(work[w].to, work[w].bytes)
  /\ Proceed(w, AfterPut(w))
  /\ UNCHANGED <<disk, artifacts, spans, outages>>

PutBegins(w) ==
  /\ work[w].step = "put" /\ work[w].to \in Files
  /\ ~Exists(work[w].to, work[w].bytes)
  /\ Proceed(w, "write")
  /\ UNCHANGED <<disk, artifacts, spans, outages>>

\* durable_cas_install looks again before it writes the temporary file.
PutWrites(w) ==
  /\ work[w].step = "write"
  /\ Proceed(w, IF Exists(work[w].to, work[w].bytes) THEN AfterPut(w) ELSE "flush")
  /\ UNCHANGED <<disk, artifacts, spans, outages>>

PutFlushes(w) ==
  /\ work[w].step = "flush" /\ Proceed(w, "rename")
  /\ UNCHANGED <<disk, artifacts, spans, outages>>

\* Mutant: the temporary file gets its name before it is flushed.
PutRenamesFirst(w) ==
  /\ work[w].step \in {"flush", "rename"}
  /\ Put(work[w].to, work[w].bytes, "cached") /\ Proceed(w, "sync")
  /\ UNCHANGED <<artifacts, spans, outages>>

\* rename replaces the file of a racer with the same bytes.
PutRenames(w) ==
  /\ work[w].step = "rename"
  /\ Put(work[w].to, work[w].bytes, "linked") /\ Proceed(w, "sync")
  /\ UNCHANGED <<artifacts, spans, outages>>

\* A failed write or rename is success when somebody else's file is there.
PutFailsLate(w) ==
  /\ work[w].step \in {"flush", "rename"} /\ Exists(work[w].to, work[w].bytes)
  /\ Proceed(w, "sync")
  /\ UNCHANGED <<disk, artifacts, spans, outages>>

\* The sync of the directory is best effort: it may do nothing.
PutSyncs(w) ==
  LET object == disk[work[w].to][work[w].bytes] IN
  /\ work[w].step = "sync"
  /\ \/ object = "linked" /\ Put(work[w].to, work[w].bytes, "whole")
     \/ UNCHANGED disk
  /\ Proceed(w, AfterPut(w))
  /\ UNCHANGED <<artifacts, spans, outages>>

\* A PUT to an object store replaces what is there.
PutUploads(w) ==
  /\ work[w].step = "put" /\ work[w].to \in Buckets
  /\ Put(work[w].to, work[w].bytes, "whole") /\ Proceed(w, AfterPut(w))
  /\ UNCHANGED <<artifacts, spans, outages>>

-----------------------------------------------------------------------------
(* Rows *)

RowsOf(s, x) == {a \in ArtifactId : artifacts[a].scope = s /\ artifacts[a].blake3 = x}

\* Mutant: deduplicated by content alone.
DuplicatesAnywhere(w) == {a \in ArtifactId : artifacts[a].blake3 = work[w].bytes}

Duplicates(w) == RowsOf(work[w].scope, work[w].bytes)

Stored(w, a) == Set(w, [work[w] EXCEPT !.step = "stored", !.row = a])

\* put_artifact answers with the row of this scope and content, if there is one.
ArtifactLookup(w) ==
  /\ work[w].step = "lookup"
  /\ \/ \E a \in Duplicates(w) : Stored(w, a)
     \/ Duplicates(w) = {} /\ Proceed(w, "create")
  /\ UNCHANGED <<disk, artifacts, spans, outages>>

ArtifactCreate(w) ==
  /\ work[w].step = "create" /\ RowsOf(work[w].scope, work[w].bytes) = {}
  /\ \E a \in ArtifactId :
       /\ artifacts[a] = NoArtifact /\ \A b \in ArtifactId : b < a => artifacts[b] # NoArtifact
       /\ artifacts' = [artifacts EXCEPT ![a] =
            [scope |-> work[w].scope, blake3 |-> work[w].bytes, location |-> work[w].to]]
       /\ Stored(w, a)
  /\ UNCHANGED <<disk, spans, outages>>

\* The unique index (scope, blake3) refuses the row: the winner's is answered.
ArtifactCreateLoses(w) ==
  /\ work[w].step = "create"
  /\ \E a \in Duplicates(w) : Stored(w, a)
  /\ UNCHANGED <<disk, artifacts, spans, outages>>

\* put_span: rows are never deleted, so its check cannot become stale.
PutSpan(a, s) ==
  /\ artifacts[a].scope = s
  /\ spans' = spans \cup {<<a, s>>}
  /\ UNCHANGED <<disk, artifacts, work, outages>>

-----------------------------------------------------------------------------
(* Relocation *)

Listed(s) == {a \in ArtifactId : artifacts[a] # NoArtifact /\ s \in {Nothing, artifacts[a].scope}}

\* relocate_artifacts: rows are listed once, s = Nothing for all scopes.
Relocate(w, from, to, s) ==
  /\ work[w].step \in {"idle", "stored"} /\ from # to
  /\ Set(w, [NoWork EXCEPT !.step = "get", !.flow = "relocate", !.scope = s,
             !.from = from, !.to = to,
             !.todo = {<<a, artifacts[a].location>> : a \in Listed(s)}])
  /\ UNCHANGED <<disk, artifacts, spans, outages>>

NextRows(w) == {r \in work[w].todo : \A q \in work[w].todo : r[1] <= q[1]}
Skipped(w, r) == Set(w, [work[w] EXCEPT !.step = "get", !.todo = @ \ {r}])

\* The location must be one of the source store, and its bytes must be those of
\* its name; otherwise the row is left alone.
RelocateGet(w) ==
  /\ work[w].step = "get"
  /\ \E r \in NextRows(w) :
       LET x == artifacts[r[1]].blake3 IN
       IF r[2] = work[w].from /\ Readable(work[w].from, x)
       THEN Set(w, [work[w] EXCEPT !.step = "put", !.bytes = x])
       ELSE Skipped(w, r)
  /\ UNCHANGED <<disk, artifacts, spans, outages>>

\* Mutant: a put that succeeded is proof enough.
ReadBackTrusting(w) ==
  /\ work[w].step = "back" /\ Proceed(w, "rebind")
  /\ UNCHANGED <<disk, artifacts, spans, outages>>

ReadBack(w) ==
  /\ work[w].step = "back"
  /\ IF Readable(work[w].to, work[w].bytes) THEN Proceed(w, "rebind")
     ELSE \E r \in NextRows(w) : Skipped(w, r)
  /\ UNCHANGED <<disk, artifacts, spans, outages>>

\* UPDATE .. WHERE location = $expected
Rebind(w) ==
  /\ work[w].step = "rebind"
  /\ \E r \in NextRows(w) :
       /\ artifacts' = IF artifacts[r[1]].location = r[2]
                       THEN [artifacts EXCEPT ![r[1]].location = work[w].to] ELSE artifacts
       /\ Skipped(w, r)
  /\ UNCHANGED <<disk, spans, outages>>

RelocateEnds(w) ==
  /\ work[w].step = "get" /\ work[w].todo = {} /\ Set(w, NoWork)
  /\ UNCHANGED <<disk, artifacts, spans, outages>>

-----------------------------------------------------------------------------

\* A process that dies, or a call that fails: a temporary file may be left.
Fail(w) ==
  /\ work[w].step \notin {"idle", "stored"} /\ Set(w, NoWork)
  /\ UNCHANGED <<disk, artifacts, spans, outages>>

\* What an outage can leave of an object.
Left(object) ==
  CASE object = "cached" -> {"absent", "torn"}
    [] object = "linked" -> {"absent", "whole"}
    [] OTHER             -> {object}

Outage ==
  /\ outages < MaxOutages /\ outages' = outages + 1
  /\ disk' \in {d \in [Backend -> [Bytes -> Object]] :
                  \A b \in Backend, x \in Bytes : d[b][x] \in Left(disk[b][x])}
  /\ work' = [w \in Actor |-> NoWork]
  /\ UNCHANGED <<artifacts, spans>>

Blob(w) == \/ PutSkips(w) \/ PutBegins(w) \/ PutWrites(w) \/ PutFlushes(w)
           \/ PutRenames(w) \/ PutFailsLate(w) \/ PutSyncs(w) \/ PutUploads(w)

EvidenceNext ==
  \/ \E w \in Actor :
       \/ \E s \in Tenant, x \in Bytes, b \in Backend : StoreArtifact(w, s, x, b)
       \/ Blob(w) \/ ArtifactLookup(w) \/ ArtifactCreate(w) \/ ArtifactCreateLoses(w)
       \/ \E from, to \in Backend : Relocate(w, from, to, Nothing)
       \/ RelocateGet(w) \/ ReadBack(w) \/ Rebind(w) \/ RelocateEnds(w) \/ Fail(w)
  \/ \E a \in ArtifactId, s \in Tenant : PutSpan(a, s)
  \/ Outage

-----------------------------------------------------------------------------

EvidenceTypeOK ==
  /\ disk \in [Backend -> [Bytes -> Object]]
  /\ artifacts \in [ArtifactId -> Artifact \cup {NoArtifact}]
  /\ spans \subseteq (ArtifactId \X Tenant)
  /\ work \in [Actor -> Work]
  /\ outages \in 0..MaxOutages

\* nomiso-blob/README.md: a completed name is never a partial write, also after
\* an outage and with several writers of the same bytes.
CompletedNamesAreWhole == \A b \in Backend, x \in Bytes : disk[b][x] # "torn"

\* OPS-002: no flow takes readable evidence away.  A row whose bytes can be read
\* where it points keeps pointing at readable bytes, although relocations run in
\* both directions, fail half way and meet corrupted copies; only an outage may
\* lose a name.
RowsStayReadable ==
  [][outages' = outages =>
       \A a \in ArtifactId :
         artifacts[a] # NoArtifact /\ Readable(artifacts[a].location, artifacts[a].blake3)
           => Readable(artifacts[a].location, artifacts[a].blake3)']_evidenceVars

\* A scope has one row for a content, an answer is the row of the scope and the
\* content that were asked for even when the call lost the race to create it,
\* and a span lives in the scope of its artifact.
EvidenceStaysInScope ==
  /\ \A a, b \in ArtifactId :
       artifacts[a] # NoArtifact /\ artifacts[a].scope = artifacts[b].scope
         /\ artifacts[a].blake3 = artifacts[b].blake3 => a = b
  /\ \A w \in Actor : work[w].step = "stored" =>
       /\ artifacts[work[w].row].scope = work[w].scope
       /\ artifacts[work[w].row].blake3 = work[w].bytes
  /\ \A s \in spans : artifacts[s[1]].scope = s[2]
=============================================================================

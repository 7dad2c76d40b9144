---------------------------- MODULE CachedRecords ----------------------------
(***************************************************************************)
(* The two routers that keep their records in a TinyDB file and their      *)
(* answers in the TTL cache: routes/incidents.py and routes/suppliers.py   *)
(* over cache.py.  They share neither file nor cache prefix and differ in  *)
(* their operations (router), so a behaviour is a behaviour of one of them.*)
(* Requests run in threads, and one step is one access to the file or to   *)
(* the cache.                                                              *)
(***************************************************************************)
EXTENDS FiniteSets, Naturals

CONSTANTS
    Record,   \* identifiers
    Request,  \* the requests that will ever arrive
    Absent,   \* no record, and no entry in the cache
    All       \* the cache key of the list

ASSUME RecordsAssumption == /\ IsFiniteSet(Request)
                            /\ Absent \notin {"open", "in_progress", "resolved", "discarded"}
                            /\ All \notin Record

VARIABLES
    router,  \* which of the two routers
    file,    \* the file: the status of each record
    cache,   \* the live entries of the cache
    req      \* req[r]: a request, its place in the code and what it holds

recordsVars == <<router, file, cache, req>>

Status == {"open", "in_progress", "resolved", "discarded"}
RecordFile   == [Record -> Status \cup {Absent}]
Key    == {All} \cup Record

(* STATUS_TRANSITIONS; the status of a supplier changes at will.             *)
Transitions(s) == IF router = "suppliers" THEN Status ELSE
                  CASE s = "open"        -> {"in_progress", "discarded"}
                    [] s = "in_progress" -> {"resolved", "discarded"}
                    [] OTHER             -> {}

(* What a key stands for: the whole list, or one record.                     *)
Covered(k) == IF k = All THEN Record ELSE {k}
View(f, k) == [i \in Covered(k) |-> f[i]]
Answer     == UNION {[Covered(k) -> Status \cup {Absent}] : k \in Key}

Reads  == {"list", "detail"}
Writes == {"create", "patch", "remove"}
RequestKinds  == IF router = "suppliers" THEN Reads \cup Writes ELSE {"list", "create", "patch"}

RecordsTypeOK ==
    /\ router \in {"incidents", "suppliers"}
    /\ file \in RecordFile
    /\ cache \in [Key -> {Absent} \cup Answer]
    /\ req \in [Request -> [kind : Reads \cup Writes, id : Record, status : Status,
                            at : {"new", "checked", "loaded", "stored", "missed",
                                  "read", "done", "failed"},
                            copy : {Absent} \cup Answer]]
    /\ \A r \in Request : req[r].at \in {"loaded", "stored"} => req[r].copy \in RecordFile

RecordsInit ==
    /\ router \in {"incidents", "suppliers"}
    /\ file \in [Record -> {Absent, "open"}]
    /\ cache = [k \in Key |-> Absent]
    /\ req \in [Request -> [kind : RequestKinds, id : Record, status : Status,
                            at : {"new"}, copy : {Absent}]]
    /\ \A r \in Request :  \* what a request does not use is fixed
          /\ req[r].kind \notin {"patch", "create"} => req[r].status = "open"
          /\ req[r].kind = "list" => req[r].id = (CHOOSE i \in Record : TRUE)

Moves(r, from, to, copy) ==
    /\ req[r].at = from
    /\ req' = [req EXCEPT ![r].at = to, ![r].copy = copy]

KeyOf(r) == IF req[r].kind = "list" THEN All ELSE req[r].id

(***************************************************************************)
(* TTLCache.                                                               *)
(***************************************************************************)
\* Faulty variant: only the entry of the written record is dropped.
InvalidateKey(r) == [cache EXCEPT ![req[r].id] = Absent]
Invalidated(r)   == [k \in Key |-> Absent]

(* An entry past its time is as good as gone.                                *)
Expire(k) == /\ cache[k] # Absent
             /\ cache' = [cache EXCEPT ![k] = Absent]
             /\ UNCHANGED <<router, file, req>>

(***************************************************************************)
(* Lists and details.                                                      *)
(***************************************************************************)
Lookup(r) == /\ req[r].kind \in Reads
             /\ IF cache[KeyOf(r)] # Absent
                THEN Moves(r, "new", "done", cache[KeyOf(r)])
                ELSE Moves(r, "new", "missed", Absent)
             /\ UNCHANGED <<router, file, cache>>

(* A record that does not exist is not cached.                               *)
ReadFile(r) == /\ Moves(r, "missed",
                        IF req[r].kind = "detail" /\ file[req[r].id] = Absent
                        THEN "failed" ELSE "read",
                        View(file, KeyOf(r)))
               /\ UNCHANGED <<router, file, cache>>

Fill(r) == /\ Moves(r, "read", "done", req[r].copy)
           /\ cache' = [cache EXCEPT ![KeyOf(r)] = req[r].copy]
           /\ UNCHANGED <<router, file>>

(***************************************************************************)
(* Writes.  The library reads the whole file, changes its copy and writes  *)
(* the whole copy back.                                                    *)
(***************************************************************************)
\* Faulty variant: the transition is not checked.
ExistsOnly(r) == file[req[r].id] # Absent
Permitted(r) == /\ file[req[r].id] # Absent
                /\ req[r].kind = "patch" =>
                      req[r].status \in Transitions(file[req[r].id])

(* The record is read to answer 404 or 400 before anything is written.       *)
Check(r) == /\ req[r].kind \in {"patch", "remove"}
            /\ Moves(r, "new", IF Permitted(r) THEN "checked" ELSE "failed", Absent)
            /\ UNCHANGED <<router, file, cache>>

\* Faulty variant: the copy holds the checked record and nothing else.
LoadRecord(r) == /\ Moves(r, "checked", "loaded", View(file, req[r].id))
                 /\ UNCHANGED <<router, file, cache>>
(* A new identifier is one that no record has.                               *)
Load(r) == /\ \/ /\ req[r].kind = "create" /\ Moves(r, "new", "loaded", file)
                 /\ file[req[r].id] = Absent
                 /\ \A q \in Request \ {r} : req[q].kind = "create" => req[q].id # req[r].id
              \/ Moves(r, "checked", "loaded", file)
           /\ UNCHANGED <<router, file, cache>>

(* A record is created in the status that its client gives it.               *)
Changed(r) ==
    LET was == req[r].copy[req[r].id]
    IN  [req[r].copy EXCEPT ![req[r].id] =
           CASE req[r].kind = "create" -> req[r].status
             [] req[r].kind = "remove" -> Absent
             [] OTHER -> IF was = Absent THEN Absent ELSE req[r].status]

Store(r) == /\ Moves(r, "loaded", "stored", req[r].copy)
            /\ file' = Changed(r)
            /\ UNCHANGED <<router, cache>>

(* A patched record is read again for the answer; if it is gone, or cannot   *)
(* be read, the request fails and the cache keeps what it has.               *)
Finish(r) == /\ req[r].kind = "patch" => file[req[r].id] # Absent
             /\ Moves(r, "stored", "done", Absent)
             /\ cache' = Invalidated(r)
             /\ UNCHANGED <<router, file>>

RereadFails(r) == /\ req[r].kind = "patch"
                  /\ Moves(r, "stored", "failed", Absent)
                  /\ UNCHANGED <<router, file, cache>>

(* A file that another request is writing cannot be parsed: status 500.      *)
AccessFails(r) == /\ \E at \in {"new", "missed", "checked", "loaded"} :
                         Moves(r, at, "failed", Absent)
                  /\ UNCHANGED <<router, file, cache>>

RequestStep(r) == \/ Lookup(r) \/ ReadFile(r) \/ Fill(r) \/ Check(r) \/ Load(r)
                  \/ Store(r) \/ Finish(r) \/ RereadFails(r) \/ AccessFails(r)

RecordsNext == \/ \E r \in Request : RequestStep(r)
               \/ \E k \in Key : Expire(k)

RecordsSpec == RecordsInit /\ [][RecordsNext]_recordsVars

(***************************************************************************)
(* Properties.                                                             *)
(***************************************************************************)
Current(k) == cache[k] \in {Absent, View(file, k)}

(* A write is stored and will still drop the entries.                        *)
Invalidating == \E r \in Request : req[r].at = "stored"

(* A reader is about to cache what a finished write has changed, or a patch  *)
(* has failed on the way to the invalidation.                                *)
Crossed == \/ \E r \in Request : /\ req[r].at = "read"
                                 /\ req[r].copy # View(file, KeyOf(r))
                                 /\ ~Invalidating
           \/ \E r \in Request : req[r].kind = "patch" /\ req[r].at = "failed"

(* A cached answer that a write has made stale is about to be dropped, unless*)
(* a reader crossed the invalidation or a patch failed before it.            *)
CurrentUnlessCrossed == ([]~Crossed) => [](\A k \in Key : Current(k) \/ Invalidating)

(* One request is between its first and its last access to the file.         *)
OneWriter == Cardinality({r \in Request : req[r].at \in {"checked", "loaded"}}) <= 1

(* What a request is about to write still follows from the file: nothing that*)
(* another one has stored is taken back, and a status moves along the        *)
(* transitions.                                                              *)
StillRight(r) == /\ req[r].copy = file
                 /\ req[r].kind = "patch" =>
                       req[r].status \in Transitions(file[req[r].id])

(* While writers do not overlap, every write is right when it is stored.     *)
WritesRightAlone ==
    ([]OneWriter) => [](\A r \in Request : req[r].at = "loaded" => StillRight(r))
=============================================================================

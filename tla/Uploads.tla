-------------------------------- MODULE Uploads --------------------------------
(***************************************************************************)
(* Resumable uploads, their import into the adapter library, and the       *)
(* catalogue that says which file holds which bytes.                       *)
(*                                                                         *)
(* A session is a JSON file beside the bytes received so far.  Requests    *)
(* run in threads: each reads the session, works on the bytes, and writes  *)
(* back the session it had read.  A scan of the library, one at a time,    *)
(* goes on beside them, and people drop files into the library themselves. *)
(*                                                                         *)
(* The sha256 of a file is the file: a resource is named by the content.   *)
(***************************************************************************)
EXTENDS Naturals, FiniteSets

CONSTANTS
  Ups,          \* upload sessions
  Threads,      \* requests under way at once
  Contents,     \* files that exist on people's disks
  Adapters,     \* those whose tensors are an adapter's; the others hold a model
  NoContent,
  Names,        \* names of files
  Size,         \* chunks of a file
  MaxChanges    \* bound on crashes, sweeps and changes people make

VARIABLES
  up,           \* the sessions and their bytes
  thread,       \* the requests
  files,        \* the library on disk
  installs,     \* resourceinstall, by location
  state,        \* resource.state, by content
  scan,         \* the scan: what it has listed and seen
  landed,       \* what imports have put in the library
  changes       \* changes so far

vars == <<up, thread, files, installs, state, scan, landed, changes>>

(* A file keeps its name, or has a piece of its hash put after it.         *)
Locations == Names \X (Contents \cup {NoContent})
MaybeContent == Contents \cup {NoContent}

(* "src" is what the client sends; -1 bytes: there is no .part.            *)
NoUp     == [at |-> "none", name |-> "", src |-> NoContent, declared |-> NoContent,
             received |-> 0, bytes |-> 0, part |-> FALSE]
NoWhere  == <<"", NoContent>>
IdleThread == [at |-> "idle", up |-> "", offset |-> 0, target |-> NoWhere, content |-> NoContent]
NoRow    == [res |-> NoContent, state |-> "none"]
IdleScan == [on |-> FALSE, todo |-> {}, seen |-> {}]

TypeOK ==
  /\ up \in [Ups -> [at : {"none", "receiving", "complete", "gone"}, name : Names \cup {""},
                     src : MaybeContent, declared : MaybeContent, received : 0 .. Size,
                     bytes : 0 .. Size, part : BOOLEAN]]
  /\ \A t \in Threads :
       /\ thread[t].at \in {"idle", "write", "hash", "check", "place", "register"}
       /\ thread[t].target \in Locations \cup {NoWhere}
  /\ files \in [Locations -> MaybeContent]
  /\ installs \in [Locations -> [res : MaybeContent, state : {"none", "verified", "missing"}]]
  /\ state \in [Contents -> {"none", "installed", "unavailable"}]
  /\ scan.todo \subseteq Locations /\ scan.seen \subseteq Locations
  /\ landed \subseteq [content : Contents, declared : MaybeContent, whole : BOOLEAN]
  /\ changes \in 0 .. MaxChanges

Init ==
  /\ up = [u \in Ups |-> NoUp] /\ thread = [t \in Threads |-> IdleThread]
  /\ files = [l \in Locations |-> NoContent] /\ installs = [l \in Locations |-> NoRow]
  /\ state = [c \in Contents |-> "none"] /\ scan = IdleScan /\ landed = {} /\ changes = 0

-----------------------------------------------------------------------------
(* The catalogue.                                                          *)

Present(l) == files[l] # NoContent
Live(row)  == row.state = "verified"

(* _refresh_state.                                                         *)
Refreshed(now, rows, c) ==
  [now EXCEPT ![c] = IF \E l \in Locations : Live(rows[l]) /\ rows[l].res = c
                       THEN "installed" ELSE "unavailable"]

(* upsert_install: one row per location, of whatever it holds last.        *)
Pointed(l, c) == [installs EXCEPT ![l] = [res |-> c, state |-> "verified"]]

(* register_file: the location points at the resource its bytes had when   *)
(* they were hashed; what it pointed at before is not looked at again.     *)
Registers(l, c) ==
  installs' = Pointed(l, c) /\ state' = Refreshed(state, Pointed(l, c), c)

(* local_file: a copy whose row is live and whose file is there.           *)
Held(c) == \E l \in Locations : Live(installs[l]) /\ installs[l].res = c /\ Present(l)

-----------------------------------------------------------------------------
(* Sessions.                                                               *)

(* _find_session.                                                          *)
Found(u) == up[u].at \in {"receiving", "complete"}
Idle(t)  == thread[t].at = "idle"
Ends(t)  == thread' = [thread EXCEPT ![t] = IdleThread]
Goes(t, u, at) == thread' = [thread EXCEPT ![t] = [IdleThread EXCEPT !.at = at, !.up = u]]
Catalogue == <<files, installs, state, scan, landed>>

(* create_upload.  People may declare a hash their file does not have.     *)
CreateUpload(u) ==
  /\ up[u].at = "none"
  /\ \E name \in Names, src \in Contents, declared \in MaybeContent :
       up' = [up EXCEPT ![u] = [NoUp EXCEPT !.at = "receiving", !.name = name, !.src = src,
                                  !.declared = declared, !.part = TRUE]]
  /\ UNCHANGED <<thread, Catalogue, changes>>

(* append_chunk: the session is read and the offset judged ...             *)
OffsetHolds(u, offset) == offset = up[u].received
ReadChunk(t, u) ==
  /\ Idle(t) /\ up[u].at = "receiving"
  /\ \E offset \in 0 .. Size - 1 :
       /\ OffsetHolds(u, offset)
       /\ thread' = [thread EXCEPT ![t] = [IdleThread EXCEPT !.at = "write", !.up = u,
                                             !.offset = offset]]
  /\ UNCHANGED <<up, Catalogue, changes>>

(* ... then the bytes are written, and the session as it was read, with    *)
(* this chunk: it is "receiving" again even if it was completed meanwhile. *)
WriteChunk(t) ==
  LET u == thread[t].up  end == thread[t].offset + 1 IN
  /\ thread[t].at = "write"
  /\ up' = IF up[u].part
             THEN [up EXCEPT ![u].bytes = IF @ < end THEN end ELSE @, ![u].received = end,
                             ![u].at = "receiving"]
             ELSE up
  /\ Ends(t)
  /\ UNCHANGED <<Catalogue, changes>>

(* complete_upload.                                                        *)
Received(u) == up[u].received = Size /\ up[u].part /\ up[u].bytes = Size
ReadComplete(t, u) ==
  /\ Idle(t) /\ up[u].at = "receiving" /\ Received(u)
  /\ Goes(t, u, "hash")
  /\ UNCHANGED <<up, Catalogue, changes>>

(* Mutant: the hash is computed for the receipt and compared with nothing. *)
Mutant_AsDeclared(u) == TRUE
AsDeclared(u) == up[u].declared \in {NoContent, up[u].src}

Removed(u) == [up EXCEPT ![u].at = "gone", ![u].part = FALSE]

HashUpload(t) ==
  LET u == thread[t].up IN
  /\ thread[t].at = "hash"
  /\ up' = CASE ~up[u].part -> up
             [] up[u].part /\ ~AsDeclared(u) -> Removed(u)
             [] OTHER -> [up EXCEPT ![u].at = "complete", ![u].received = Size]
  /\ Ends(t)
  /\ UNCHANGED <<Catalogue, changes>>

CancelUpload(u) ==
  /\ Found(u) /\ up' = Removed(u)
  /\ UNCHANGED <<thread, Catalogue, changes>>

(* sweep_uploads, at a start: what nobody has touched for a day.           *)
Changes == changes < MaxChanges /\ changes' = changes + 1
Sweep(u) ==
  /\ Changes /\ Found(u) /\ \A t \in Threads : thread[t].up # u
  /\ up' = Removed(u)
  /\ UNCHANGED <<thread, Catalogue>>

-----------------------------------------------------------------------------
(* Importing.                                                              *)

(* import_receipt: an upload that is complete.                             *)
ReadReceipt(t, u) ==
  /\ Idle(t) /\ up[u].at = "complete"
  /\ Goes(t, u, "check")
  /\ UNCHANGED <<up, Catalogue, changes>>

(* Whatever comes of it, the upload is consumed.                           *)
Consumed(t) == up' = Removed(thread[t].up) /\ Ends(t)

(* import_file: the header must be sound and an adapter's, content that is *)
(* installed is not imported again, and a name that is taken gets a piece  *)
(* of the hash put after it.                                               *)
Importable(u) == up[u].part /\ up[u].bytes = Size /\ up[u].src \in Adapters
Target(u) ==
  LET plain == <<up[u].name, NoContent>> IN
  IF Present(plain) THEN <<up[u].name, up[u].src>> ELSE plain

CheckImport(t) ==
  LET u == thread[t].up IN
  /\ thread[t].at = "check"
  /\ IF Importable(u) /\ ~Held(up[u].src)
       THEN /\ thread' = [thread EXCEPT ![t].at = "place", ![t].target = Target(u)]
            /\ UNCHANGED up
       ELSE Consumed(t)
  /\ UNCHANGED <<Catalogue, changes>>

(* os.replace puts the bytes in place, over whatever is there by now.      *)
PlaceImport(t) ==
  LET u == thread[t].up  l == thread[t].target IN
  /\ thread[t].at = "place"
  /\ IF up[u].part
       THEN /\ files' = [files EXCEPT ![l] = up[u].src]
            /\ landed' = landed \cup {[content |-> up[u].src, declared |-> up[u].declared,
                                       whole |-> up[u].bytes = Size]}
            /\ thread' = [thread EXCEPT ![t].at = "register", ![t].content = up[u].src]
            /\ up' = [up EXCEPT ![u].part = FALSE]
       ELSE Consumed(t) /\ UNCHANGED <<files, landed>>
  /\ UNCHANGED <<installs, state, scan, changes>>

RegisterImport(t) ==
  /\ thread[t].at = "register"
  /\ Registers(thread[t].target, thread[t].content)
  /\ Consumed(t)
  /\ UNCHANGED <<files, scan, landed, changes>>

-----------------------------------------------------------------------------
(* Scanning (scan_library).                                                *)

ScanBegin ==
  /\ ~scan.on
  /\ scan' = [on |-> TRUE, todo |-> {l \in Locations : Present(l)}, seen |-> {}]
  /\ UNCHANGED <<up, thread, files, installs, state, landed, changes>>

(* A file that looks as it did is not read again.                          *)
ScanFile ==
  /\ scan.on
  /\ \E l \in scan.todo :
       /\ scan' = [scan EXCEPT !.todo = @ \ {l}, !.seen = IF Present(l) THEN @ \cup {l} ELSE @]
       /\ IF Present(l) /\ ~(Live(installs[l]) /\ installs[l].res = files[l])
            THEN Registers(l, files[l])
            ELSE UNCHANGED <<installs, state>>
  /\ UNCHANGED <<up, thread, files, landed, changes>>

(* Installs the pass did not see are missing, also those made since it     *)
(* listed the library.                                                     *)
ScanEnd ==
  LET lost == {l \in Locations : Live(installs[l]) /\ l \notin scan.seen}
      rows == [l \in Locations |-> IF l \in lost THEN [installs[l] EXCEPT !.state = "missing"]
                                                 ELSE installs[l]] IN
  /\ scan.on /\ scan.todo = {} /\ scan' = IdleScan
  /\ installs' = rows
  /\ state' = [c \in Contents |-> IF \E l \in lost : installs[l].res = c
                                    THEN Refreshed(state, rows, c)[c] ELSE state[c]]
  /\ UNCHANGED <<up, thread, files, landed, changes>>

-----------------------------------------------------------------------------
(* Around them.                                                            *)

PersonDeletes ==
  /\ Changes
  /\ \E l \in Locations : Present(l) /\ files' = [files EXCEPT ![l] = NoContent]
  /\ UNCHANGED <<up, thread, installs, state, scan, landed>>

PersonDrops ==
  /\ Changes
  /\ \E name \in Names, c \in Adapters :
       ~Present(<<name, NoContent>>) /\ files' = [files EXCEPT ![<<name, NoContent>>] = c]
  /\ UNCHANGED <<up, thread, installs, state, scan, landed>>

(* The process dies with its threads; sessions and files stay.             *)
Dies ==
  /\ Changes
  /\ thread' = [t \in Threads |-> IdleThread] /\ scan' = IdleScan
  /\ UNCHANGED <<up, files, installs, state, landed>>

Next ==
  \/ \E u \in Ups : CreateUpload(u) \/ CancelUpload(u) \/ Sweep(u)
  \/ \E t \in Threads, u \in Ups : ReadChunk(t, u) \/ ReadComplete(t, u) \/ ReadReceipt(t, u)
  \/ \E t \in Threads : \/ WriteChunk(t) \/ HashUpload(t)
                        \/ CheckImport(t) \/ PlaceImport(t) \/ RegisterImport(t)
  \/ ScanBegin \/ ScanFile \/ ScanEnd
  \/ PersonDeletes \/ PersonDrops \/ Dies

Spec == Init /\ [][Next]_vars

-----------------------------------------------------------------------------
(* What imports put in the library is a whole file, an adapter, and the    *)
(* one its sender declared, through retried chunks, chunks that finish     *)
(* after the upload was completed, receipts used twice, cancels and        *)
(* crashes (resources/intake.py append_chunk, complete_upload).            *)
UploadsArrive ==
  \A f \in landed : /\ f.whole /\ f.content \in Adapters
                    /\ f.declared \in {NoContent, f.content}
=============================================================================

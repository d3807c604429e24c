-------------------------------- MODULE Stores --------------------------------
(***************************************************************************)
(* The stores, the location behind each (its code is STR- and the store's  *)
(* code), the backup job and the login a store gets                        *)
(* (stores/stores.service.ts, users/users.service.ts).                     *)
(*                                                                         *)
(* Creating a store writes the location, the store, the job and the login  *)
(* one after the other; editing one writes the location and then the       *)
(* store.  None of it is a transaction, and any statement may be the last. *)
(***************************************************************************)
EXTENDS FiniteSets

CONSTANTS
  Store, Location,  \* rows that may come to exist
  Code,             \* codes, of a store and of its location
  Email,
  Request,          \* requests the server may be handling at one time
  None,             \* no row yet, no value
  Gone              \* a deleted row

VARIABLES
  stores,     \* the Store table: code and location; code None before, Gone after
  locations,  \* the code of each Location row, None for no row
  jobs,       \* stores with a BackupJob row
  logins,     \* the store of each e-mail's User row, None for none
  access,     \* the UserStoreAccess rows
  req,        \* what each request slot is doing
  skewed      \* history: locations an edit of which was cut short or overlapped another

vars == <<stores, locations, jobs, logins, access, req, skewed>>

Idle == [step |-> "idle", store |-> None, code |-> None, loc |-> None, email |-> None]

TypeOK ==
  /\ stores \in [Store -> [code : Code \cup {None, Gone}, loc : Location \cup {None}]]
  /\ locations \in [Location -> Code \cup {None}]
  /\ jobs \subseteq Store /\ skewed \subseteq Location
  /\ logins \in [Email -> Store \cup {None}] /\ access \subseteq Email \X Store
  /\ req \in [Request -> [step : {"idle", "locate", "create", "job", "login", "grant", "relocate",
                                  "edit"},
                          store : Store \cup {None}, code : Code \cup {None},
                          loc : Location \cup {None}, email : Email \cup {None}]]

Exists(s) == stores[s].code \in Code
codeTaken(c) == \E s \in Store : stores[s].code = c
Editing(s) == \E q \in Request : req[q].step \in {"relocate", "edit"} /\ req[q].store = s
Claimed(l) == \E q \in Request : req[q].step = "create" /\ req[q].loc = l
Goto(q, step) == req' = [req EXCEPT ![q].step = step]
End(q) == req' = [req EXCEPT ![q] = Idle]

-----------------------------------------------------------------------------
(* Create: by hand or row by row in a bulk import, with or without a login. *)

StartCreate(q, c, e) ==
  /\ req[q] = Idle /\ ~codeTaken(c)
  /\ req' = [req EXCEPT ![q] = [Idle EXCEPT !.step = "locate", !.code = c, !.email = e]]
  /\ UNCHANGED <<stores, locations, jobs, logins, access, skewed>>

\* The location of a wiped store of that code is used again.
UpsertLocation(q) ==
  /\ req[q].step = "locate"
  /\ \E l \in Location :
       /\ locations[l] \in {req[q].code, None}
       /\ locations[l] = None => \A m \in Location : locations[m] # req[q].code
       /\ locations' = [locations EXCEPT ![l] = req[q].code]
       /\ req' = [req EXCEPT ![q].step = "create", ![q].loc = l]
  /\ UNCHANGED <<stores, jobs, logins, access, skewed>>

CreateStore(q, s) ==
  /\ req[q].step = "create" /\ stores[s].code = None
  /\ ~codeTaken(req[q].code) /\ \A t \in Store : Exists(t) => stores[t].loc # req[q].loc
  /\ stores' = [stores EXCEPT ![s] = [code |-> req[q].code, loc |-> req[q].loc]]
  /\ req' = [req EXCEPT ![q] = [Idle EXCEPT !.step = "job", !.store = s, !.email = req[q].email]]
  /\ UNCHANGED <<locations, jobs, logins, access, skewed>>

CreateJob(q) ==
  /\ req[q].step = "job" /\ Exists(req[q].store)
  /\ jobs' = jobs \cup {req[q].store}
  /\ IF req[q].email = None THEN End(q) ELSE Goto(q, "login")
  /\ UNCHANGED <<stores, locations, logins, access, skewed>>

\* The backups page and a PC that fetches its configuration heal a missing job.
HealJob(s) ==
  /\ Exists(s) /\ s \notin jobs /\ jobs' = jobs \cup {s}
  /\ UNCHANGED <<stores, locations, logins, access, req, skewed>>

-----------------------------------------------------------------------------
(* The login of a store, and what it may see.                              *)

provisionLogin(q, s, e) ==
  /\ req[q] = Idle /\ Exists(s)
  /\ req' = [req EXCEPT ![q] = [Idle EXCEPT !.step = "login", !.store = s, !.email = e]]
  /\ UNCHANGED <<stores, locations, jobs, logins, access, skewed>>

\* A login that exists is pointed at this store.
WriteLogin(q) ==
  /\ req[q].step = "login" /\ Exists(req[q].store)
  /\ logins' = [logins EXCEPT ![req[q].email] = req[q].store]
  /\ Goto(q, "grant")
  /\ UNCHANGED <<stores, locations, jobs, access, skewed>>

GrantAccess(q) ==
  /\ req[q].step = "grant" /\ Exists(req[q].store)
  /\ access' = access \cup {<<req[q].email, req[q].store>>}
  /\ End(q)
  /\ UNCHANGED <<stores, locations, jobs, logins, skewed>>

\* All that e may see is now S.  (Read and write are one step here.)
setStoreAccess(e, S) ==
  /\ \A s \in S : Exists(s)
  /\ access' = {g \in access : g[1] # e} \cup ({e} \X S)
  /\ UNCHANGED <<stores, locations, jobs, logins, req, skewed>>

-----------------------------------------------------------------------------
(* Edit and delete.                                                        *)

\* The code stays or is changed to one that no store has.
StartUpdate(q, s, c) ==
  /\ req[q] = Idle /\ Exists(s)
  /\ c # stores[s].code => ~codeTaken(c)
  /\ req' = [req EXCEPT ![q] = [Idle EXCEPT !.step = "relocate", !.store = s, !.code = c,
                                            !.loc = stores[s].loc]]
  /\ skewed' = IF Editing(s) THEN skewed \cup {stores[s].loc} ELSE skewed
  /\ UNCHANGED <<stores, locations, jobs, logins, access>>

\* mutant: an edit leaves the code of the location
RelocateNot(q) ==
  /\ req[q].step = "relocate"
  /\ Goto(q, "edit")
  /\ UNCHANGED <<stores, locations, jobs, logins, access, skewed>>

UpdateLocation(q) ==
  /\ req[q].step = "relocate"
  /\ \A l \in Location \ {req[q].loc} : locations[l] # req[q].code
  /\ locations' = [locations EXCEPT ![req[q].loc] = req[q].code]
  /\ skewed' = IF Claimed(req[q].loc) THEN skewed \cup {req[q].loc} ELSE skewed
  /\ Goto(q, "edit")
  /\ UNCHANGED <<stores, jobs, logins, access>>

UpdateStore(q) ==
  LET s == req[q].store IN
  /\ req[q].step = "edit" /\ Exists(s)
  /\ \A t \in Store \ {s} : stores[t].code # req[q].code
  /\ stores' = [stores EXCEPT ![s].code = req[q].code]
  /\ End(q)
  /\ UNCHANGED <<locations, jobs, logins, access, skewed>>

\* One transaction; the location stays behind.
remove(s) ==
  /\ Exists(s)
  /\ stores' = [stores EXCEPT ![s] = [code |-> Gone, loc |-> None]]
  /\ jobs' = jobs \ {s} /\ access' = {g \in access : g[2] # s}
  /\ logins' = [e \in Email |-> IF logins[e] = s THEN None ELSE logins[e]]
  /\ skewed' = IF Editing(s) THEN skewed \cup {stores[s].loc} ELSE skewed
  /\ UNCHANGED <<locations, req>>

\* Every request may fail at its next statement.
Fail(q) ==
  /\ req[q] # Idle
  /\ skewed' = IF req[q].step = "edit" THEN skewed \cup {req[q].loc} ELSE skewed
  /\ End(q)
  /\ UNCHANGED <<stores, locations, jobs, logins, access>>

Init ==
  /\ stores = [s \in Store |-> [code |-> None, loc |-> None]]
  /\ locations = [l \in Location |-> None]
  /\ jobs = {} /\ skewed = {} /\ access = {}
  /\ logins = [e \in Email |-> None]
  /\ req = [q \in Request |-> Idle]

Next ==
  \/ \E q \in Request :
       \/ \E c \in Code, e \in Email \cup {None} : StartCreate(q, c, e)
       \/ \E s \in Store : CreateStore(q, s) \/ \E c \in Code : StartUpdate(q, s, c)
       \/ \E s \in Store, e \in Email : provisionLogin(q, s, e)
       \/ UpsertLocation(q) \/ CreateJob(q) \/ WriteLogin(q) \/ GrantAccess(q)
       \/ UpdateLocation(q) \/ UpdateStore(q) \/ Fail(q)
  \/ \E s \in Store : remove(s) \/ HealJob(s)
  \/ \E e \in Email, S \in SUBSET Store : setStoreAccess(e, S)

Spec == Init /\ [][Next]_vars

-----------------------------------------------------------------------------
\* A store's location carries the store's code, in every state in which no edit
\* of the store is under way: creates of the same code, wiped stores whose
\* location is used again and edits of other stores cannot part the two, only an
\* edit that was cut short, or that overlapped another edit or the deletion of
\* its store, or a create that had just found the location.
LocationInStep ==
  \A s \in Store :
    Exists(s) /\ ~Editing(s) /\ stores[s].loc \notin skewed =>
      locations[stores[s].loc] = stores[s].code
=============================================================================

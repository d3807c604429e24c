------------------------------ MODULE RouterPool ------------------------------
(***************************************************************************)
(* The subnets of the store routers (mikrotik/mikrotik.service.ts): the    *)
(* pool of a brand keeps the last third octet handed out, and every        *)
(* generated configuration takes the next /24.                             *)
(*                                                                         *)
(* generate() reads the pool, renders the configuration and then writes it *)
(* and the pool in one transaction, from what it read.  deleteConfig()     *)
(* reads and writes in a transaction, which others may commit beside.      *)
(***************************************************************************)
EXTENDS Integers, FiniteSets, FiniteSetsExt

CONSTANTS
  Config,   \* rows that may come to exist, of one brand
  Request,  \* requests the server may be handling at one time
  MaxOctet, \* the largest third octet, 254
  None

VARIABLES
  lastThirdOctet,  \* of the MikrotikNetworkPool row
  configs,         \* the MikrotikConfig table: the third octet, -1 for no row
  req,             \* what each request slot is doing
  chosen,          \* history: octets a config or the pool was given by hand
  stale            \* history: a request wrote the pool or a config after another had changed what it read

vars == <<lastThirdOctet, configs, req, chosen, stale>>

Idle == [step |-> "idle", config |-> None, octet |-> -1, last |-> -1]

TypeOK ==
  /\ lastThirdOctet \in 0..MaxOctet
  /\ configs \in [Config -> -1..MaxOctet]
  /\ req \in [Request -> [step : {"idle", "generate", "delete"}, config : Config \cup {None},
                          octet : -1..MaxOctet, last : -1..MaxOctet]]
  /\ chosen \subseteq 0..MaxOctet /\ stale \in BOOLEAN

Octets(rows) == {rows[c] : c \in Config} \ {-1}

\* The pool is set by hand; what it had handed out may come again.
updatePool(n) ==
  /\ lastThirdOctet' = n
  /\ chosen' = chosen \cup (n + 1)..lastThirdOctet
  /\ UNCHANGED <<configs, req, stale>>

\* mutant: the octet of the last configuration is handed out again
generateLast(q) ==
  LET octet == lastThirdOctet IN
  /\ req[q] = Idle /\ octet <= MaxOctet
  /\ req' = [req EXCEPT ![q].step = "generate", ![q].octet = octet, ![q].last = lastThirdOctet]
  /\ UNCHANGED <<lastThirdOctet, configs, chosen, stale>>

\* The next octet, as long as there is one.
generate(q) ==
  LET octet == lastThirdOctet + 1 IN
  /\ req[q] = Idle /\ octet <= MaxOctet
  /\ req' = [req EXCEPT ![q].step = "generate", ![q].octet = octet, ![q].last = lastThirdOctet]
  /\ UNCHANGED <<lastThirdOctet, configs, chosen, stale>>

\* An octet that was typed in is not looked for among the configurations.
generateOverride(q, octet) ==
  /\ req[q] = Idle
  /\ req' = [req EXCEPT ![q].step = "generate", ![q].octet = octet, ![q].last = lastThirdOctet]
  /\ chosen' = chosen \cup {octet}
  /\ UNCHANGED <<lastThirdOctet, configs, stale>>

\* The pool is bumped by what it was when it was read.
SaveConfig(q, c) ==
  /\ req[q].step = "generate" /\ configs[c] = -1
  /\ configs' = [configs EXCEPT ![c] = req[q].octet]
  /\ lastThirdOctet' = IF req[q].octet > req[q].last THEN req[q].octet ELSE lastThirdOctet
  /\ stale' = (stale \/ lastThirdOctet # req[q].last)
  /\ req' = [req EXCEPT ![q] = Idle]
  /\ UNCHANGED chosen

\* mutant: the pool steps back below 0
RewindBelow(c) ==
  LET rest == Octets([configs EXCEPT ![c] = -1]) IN
  IF configs[c] # lastThirdOctet THEN lastThirdOctet
  ELSE IF rest # {} THEN Max(rest)
  ELSE lastThirdOctet - 1

\* The pool after config c: back to the highest octet that remains, or by one.
Rewound(c) ==
  LET rest == Octets([configs EXCEPT ![c] = -1]) IN
  IF configs[c] # lastThirdOctet THEN lastThirdOctet
  ELSE IF rest # {} THEN Max(rest)
  ELSE Max({lastThirdOctet - 1, 0})

\* The deletion has counted what remains, and has not committed.
deleteConfig(q, c) ==
  /\ req[q] = Idle /\ configs[c] # -1
  /\ \A r \in Request : req[r].config # c
  /\ req' = [req EXCEPT ![q] = [step |-> "delete", config |-> c, octet |-> Rewound(c),
                                last |-> lastThirdOctet]]
  /\ UNCHANGED <<lastThirdOctet, configs, chosen, stale>>

CommitDelete(q) ==
  LET c == req[q].config IN
  /\ req[q].step = "delete"
  /\ configs' = [configs EXCEPT ![c] = -1]
  /\ lastThirdOctet' = IF req[q].octet # req[q].last THEN req[q].octet ELSE lastThirdOctet
  /\ stale' = (stale \/ Rewound(c) # IF req[q].octet # req[q].last THEN req[q].octet
                                     ELSE lastThirdOctet)
  /\ req' = [req EXCEPT ![q] = Idle]
  /\ UNCHANGED chosen

Fail(q) ==
  /\ req[q] # Idle
  /\ req' = [req EXCEPT ![q] = Idle]
  /\ UNCHANGED <<lastThirdOctet, configs, chosen, stale>>

Init ==
  /\ lastThirdOctet = 0 /\ configs = [c \in Config |-> -1]
  /\ req = [q \in Request |-> Idle] /\ chosen = {} /\ stale = FALSE

Next ==
  \/ \E n \in 0..MaxOctet : updatePool(n)
  \/ \E q \in Request :
       \/ generate(q) \/ CommitDelete(q) \/ Fail(q)
       \/ \E n \in 0..MaxOctet : generateOverride(q, n)
       \/ \E c \in Config : SaveConfig(q, c) \/ deleteConfig(q, c)

Spec == Init /\ [][Next]_vars

-----------------------------------------------------------------------------
\* No two stores of a brand get the same subnet, through any generations, deletions
\* of the newest configuration and rewinds of the pool - except a subnet that was
\* typed in or that the pool was set back below by hand, or once a request wrote
\* what it had worked out before another one changed the pool.
SubnetsDistinct ==
  ~stale => \A c, d \in Config :
    c # d /\ configs[c] # -1 /\ configs[c] = configs[d] => configs[c] \in chosen
=============================================================================

------------------------------- MODULE WebCache -------------------------------
(***************************************************************************)
(* The cache of the web client, for one operation a user starts and one    *)
(* query whose answer that operation changes: the answer is cached for     *)
(* 30 seconds under its key, asked for again when a screen that shows it   *)
(* opens, and when the operation invalidates its key.  "old" is an answer  *)
(* from before the write, "new" one from after it.                         *)
(***************************************************************************)
CONSTANT Pair  \* the operations, each with a query it changes (WebScreens!Pairs)

VARIABLES
  pair,       \* the operation and the query a behaviour is about; NoPair before it is chosen
  shown,      \* is a screen with the query on display?
  cache,      \* the cached answer: "none", "old", "new", or "empty" where a failure was swallowed
  fresh,      \* is it younger than staleTime, and not invalidated?
  flight,     \* the fetch under way: "none", "sent", or the answer on its way back
  write,      \* "no", "sent", "stored", then "told" (onSuccess ran), "refused" or "lost"
  overtaken,  \* history: onSuccess found an old answer on its way, and left it
  failed      \* history: the last fetch failed, and the screen shows its error

vars == <<pair, shown, cache, fresh, flight, write, overtaken, failed>>

NoPair == [op |-> "none", key |-> "none", here |-> TRUE, told |-> FALSE, polled |-> FALSE, lenient |-> FALSE]

TypeOK ==
  /\ pair.here \in BOOLEAN /\ pair.told \in BOOLEAN /\ pair.polled \in BOOLEAN /\ pair.lenient \in BOOLEAN
  /\ shown \in BOOLEAN /\ fresh \in BOOLEAN /\ overtaken \in BOOLEAN /\ failed \in BOOLEAN
  /\ cache \in {"none", "old", "new", "empty"}
  /\ flight \in {"none", "sent", "old", "new"}
  /\ write \in {"no", "sent", "stored", "told", "refused", "lost"}

Init ==
  /\ pair = NoPair
  /\ shown = FALSE /\ cache = "none" /\ fresh = FALSE /\ flight = "none"
  /\ write = "no" /\ overtaken = FALSE /\ failed = FALSE

\* A behaviour is about one operation and one query.
Visit ==
  /\ pair = NoPair
  /\ pair' \in Pair
  /\ UNCHANGED <<shown, cache, fresh, flight, write, overtaken, failed>>

-----------------------------------------------------------------------------
\* A screen opens: it shows what is cached, and asks again unless that is fresh or a
\* request is already under way.
Show ==
  /\ pair # NoPair /\ ~shown
  /\ shown' = TRUE
  /\ flight' = IF flight = "none" /\ (cache = "none" \/ ~fresh) THEN "sent" ELSE flight
  /\ UNCHANGED <<pair, cache, fresh, write, overtaken, failed>>

\* It closes: a fetch under way goes on.
Hide ==
  /\ shown
  /\ shown' = FALSE
  /\ UNCHANGED <<pair, cache, fresh, flight, write, overtaken, failed>>

\* staleTime passes.  By itself this asks for nothing.
Age ==
  /\ fresh
  /\ fresh' = FALSE
  /\ UNCHANGED <<pair, shown, cache, flight, write, overtaken, failed>>

\* refetchInterval, while the screen is open.
Poll ==
  /\ shown /\ pair.polled /\ flight = "none"
  /\ flight' = "sent"
  /\ UNCHANGED <<pair, shown, cache, fresh, write, overtaken, failed>>

\* The server reads the tables.
Read ==
  /\ flight = "sent"
  /\ flight' = IF write \in {"stored", "told", "lost"} THEN "new" ELSE "old"
  /\ UNCHANGED <<pair, shown, cache, fresh, write, overtaken, failed>>

\* The answer is cached, and counts as fresh whatever was invalidated while it was on its way.
Answer ==
  /\ flight \in {"old", "new"}
  /\ cache' = flight
  /\ fresh' = TRUE
  /\ flight' = "none"
  /\ failed' = FALSE
  /\ UNCHANGED <<pair, shown, write, overtaken>>

\* The fetch fails.  A .catch turns that into an answer; else the cache is kept, with the error.
FetchFails ==
  /\ flight # "none"
  /\ flight' = "none"
  /\ cache' = IF pair.lenient THEN "empty" ELSE cache
  /\ fresh' = (fresh \/ pair.lenient)
  /\ failed' = ~pair.lenient
  /\ UNCHANGED <<pair, shown, write, overtaken>>

-----------------------------------------------------------------------------
\* The user starts the operation: from the page of the query, or from another one.
Send ==
  /\ pair # NoPair /\ write = "no"
  /\ pair.here \/ ~shown
  /\ write' = "sent"
  /\ UNCHANGED <<pair, shown, cache, fresh, flight, overtaken, failed>>

\* The server commits, or refuses.
Commit ==
  /\ write = "sent"
  /\ write' \in {"stored", "refused"}
  /\ UNCHANGED <<pair, shown, cache, fresh, flight, overtaken, failed>>

\* The answer is lost: onError runs, and invalidates nothing.
LoseAnswer ==
  /\ write = "stored"
  /\ write' = "lost"
  /\ UNCHANGED <<pair, shown, cache, fresh, flight, overtaken, failed>>

\* invalidateQueries: the entry is stale, and asked for again if it is on display.  A fetch
\* under way is cancelled for that, unless it is the first, which has nothing to fall back on.
Invalidate ==
  /\ fresh' = FALSE
  /\ flight' = IF shown /\ (cache # "none" \/ flight = "none") THEN "sent" ELSE flight
  /\ overtaken' = (flight' = "old")

\* onSuccess.
Told ==
  /\ write = "stored"
  /\ write' = "told"
  /\ IF pair.told THEN Invalidate ELSE UNCHANGED <<fresh, flight, overtaken>>
  /\ UNCHANGED <<pair, shown, cache, failed>>

Next ==
  \/ Visit \/ Show \/ Hide \/ Age \/ Poll \/ Read \/ Answer \/ FetchFails
  \/ Send \/ Commit \/ LoseAnswer \/ Told

Spec == Init /\ [][Next]_vars

-----------------------------------------------------------------------------
\* What the screens leave on display after an operation of their own that changes it: rows
\* written by the operation that the query selects, under a key its onSuccess does not name.
LeftStale ==
  ({"sw-summary"} \X {"Software.createTitle", "Software.createLicense", "Software.assign", "Software.revoke"})
  \cup ({"assets"} \X {"IbtList.dispatch", "IbtList.receive", "Repairs.transition"})
  \cup ({"store-compliance"} \X {"EditStoreModal.save", "TransferStockModal.transfer", "DeleteStoreButton.remove"})
  \cup ({"stores"} \X {"EditStoreModal.save", "DeleteStoreButton.remove", "StoreDetail.provisionStoreLogin"})
  \cup ({"area-managers"} \X {"AreaManagers.provisionLogin", "EditStoreModal.save", "DeleteStoreButton.remove",
                              "StoresList.create"})
  \cup ({"activity"} \X {"ForceChangePasswordModal.change", "Layout.savePrefs", "Layout.resetPrefs"})
  \cup ({"dvr-endpoints"} \X {"Dvrs.update", "Dvrs.remove"})
  \cup {<<"audit-summary", "AuditDetail.complete">>, <<"store", "DeleteStoreButton.remove">>,
        <<"area-manager", "AreaManagers.save">>, <<"area-manager", "AreaManagers.remove">>,
        <<"area-manager", "AreaManagers.provisionLogin">>, <<"users", "AreaManagers.provisionLogin">>,
        <<"users", "AreaManagers.save">>, <<"t-watchers", "HelpdeskDetail.comment">>,
        <<"oncall-shifts", "HelpdeskOnCall.broadcast">>, <<"kb-list", "KnowledgeBase.vote">>,
        <<"mk-preview", "Mikrotik.savePool">>, <<"signage-assigns", "SignagePlaylists.del">>,
        <<"hd-webhooks", "WebhooksPanel.test">>, <<"hd-canned-all", "HelpdeskAdmin.save">>,
        <<"user-detail", "UserCard.toggleActive">>, <<"users", "UserCard.setOverride">>}

\* And where only the table is shared: the query shows other rows of it, or columns the
\* operation leaves alone.
Unrelated ==
  ({"regions"} \X {"AreaManagers.save", "AreaManagers.remove", "AreaManagerDetail.save"})
  \cup ({"stores"} \X {"AreaManagers.save", "AreaManagers.remove", "AreaManagerDetail.save"})
  \cup ({"users"} \X {"AreaManagers.remove", "AreaManagerDetail.save"})
  \cup ({"t-links"} \X {"HelpdeskDetail.patch", "HelpdeskDetail.comment", "HelpdeskDetail.rate",
                        "TicketV3Panel.requestAppr"})
  \cup ({"user-detail"} \X {"Users.create", "Users.provisionMarketing"})
  \cup ({"kb-article"} \X {"KnowledgeBase.create", "KnowledgeBase.remove"})
  \cup {<<"pc", "AgentEnrollment.togglePcActive">>, <<"dvr-endpoints", "Dvrs.create">>,
        <<"hd-canned-all", "HelpdeskAdmin.remove">>, <<"me", "Security.setup">>,
        <<"signage-assigns", "SignagePlaylists.create">>, <<"store-compliance", "StoreDetail.provisionStoreLogin">>,
        <<"area-managers", "StoreDetail.provisionStoreLogin">>}

\* Every query an operation changes is told, polls, or is among those.
Accounted == \A p \in Pair : p.told \/ p.polled \/ <<p.key, p.op>> \in LeftStale \cup Unrelated

\* An operation's own write is shown: once the client has the success of an operation, no
\* screen rests on an answer from before it, except one that polls, one whose fetch failed,
\* one whose fetch was already answered when the success came (a first load is not cancelled
\* by invalidateQueries, nor is one of a closed screen), and the screens of LeftStale.
OwnWriteShown ==
  (write = "told" /\ shown /\ flight = "none" /\ cache = "old") =>
    \/ overtaken \/ failed \/ pair.polled
    \/ <<pair.key, pair.op>> \in LeftStale \cup Unrelated
=============================================================================

------------------------------ MODULE WebScreens ------------------------------
(***************************************************************************)
(* The screens of the web client (React Query), one definition for each    *)
(* component that talks to the API: the queries it shows and the           *)
(* operations a user starts from it, each with the keys its onSuccess      *)
(* invalidates.  A key stands for the head of the query key: invalidation  *)
(* is by prefix, and the entity whose id follows is taken to be the same.  *)
(* Forms, tables and wording are left out.                                 *)
(***************************************************************************)
EXTENDS ApiTables

\* A query: its key and the tables behind its answer.
Q(key, tables) == [key |-> key, reads |-> tables, polled |-> FALSE, lenient |-> FALSE]

\* With a refetchInterval; with a .catch that answers an empty list or nothing.
Polled(query) == [query EXCEPT !.polled = TRUE]
Lenient(query) == [query EXCEPT !.lenient = TRUE]

\* An operation of a user: the tables it writes, the audit trail of the server's interceptor
\* among them, and the keys it invalidates once it has its answer.
M(name, tables, keys) == [name |-> name, writes |-> tables \cup {"auditEvent"}, tells |-> keys]

AllStores == Q("stores", StoresApi.list)
AllSkus == Q("skus", SkusApi.list)
AllSuppliers == Q("suppliers", SuppliersApi.list)
AllLocations == Q("locations", LocationsApi.list)
AllDepartments == Q("departments", DepartmentsApi.list)
AllUsers   == Q("users", UsersApi.list)
HelpdeskCategories == Q("hd-cats", HelpdeskTablesApi.categories)
HelpdeskUsers == Lenient(Q("hd-users", UsersApi.list))

-----------------------------------------------------------------------------
\* Assets, stock and the papers that move them.

AssetsList ==
  [page  |-> "assets",
   shows |-> {Q("assets", AssetsApi.list), AllSkus, AllSuppliers, AllLocations},
   does  |-> {M("AssetsList.create", AssetsApi.create, {"assets"})}]

AssetDetail ==
  [page  |-> "assets/:id",
   shows |-> {Q("asset", AssetsApi.byId)},
   does  |-> {M("AssetDetail.logFault", RepairsApi.create, {"asset", "repairs"}),
              M("AssetDetail.doDispose", DecommissionApi.decommission, {"asset"})}]

AssetsImport ==
  [page  |-> "assets/import",
   shows |-> {},
   does  |-> {M("AssetsImport.dryRun", ImportApi.dryRun, {}), M("AssetsImport.commit", ImportApi.commit, {})}]

HqAssets ==
  [page  |-> "hq",
   shows |-> {AllDepartments, Q("hq-assets", AssetsApi.list)},
   does  |-> {M("HqAssets.assign", AssetsApi.assignDepartment, {"hq-assets", "departments"})}]

StockByLocation ==
  [page  |-> "stock",
   shows |-> {Q("stock", StockApi.byLocation), AllSkus, AllLocations},
   does  |-> {M("StockByLocation.upsert", StockApi.upsert, {"stock"})}]

GrvList ==
  [page  |-> "grv",
   shows |-> {Q("grv", GrvApi.list), AllSuppliers, AllSkus, AllLocations},
   does  |-> {M("GrvList.create", GrvApi.create, {"grv"}), M("GrvList.confirmGrv", GrvApi.confirm, {"grv"})}]

IbtList ==
  [page  |-> "ibt",
   shows |-> {Q("ibt", IbtApi.list), Q("assets", AssetsApi.list), AllSkus, AllLocations},
   does  |-> {M("IbtList.create", IbtApi.create, {"ibt"}), M("IbtList.approve", IbtApi.approve, {"ibt"}),
              M("IbtList.dispatch", IbtApi.dispatch, {"ibt"}), M("IbtList.receive", IbtApi.receive, {"ibt"})}]

Repairs ==
  [page  |-> "repairs",
   shows |-> {Q("repairs", RepairsApi.list), Q("assets", AssetsApi.list), AllSuppliers},
   does  |-> {M("Repairs.create", RepairsApi.create, {"repairs"}),
              M("Repairs.transition", RepairsApi.transition, {"repairs"})}]

Warranties ==
  [page  |-> "warranties",
   shows |-> {Q("warranty-dash", WarrantyApi.dashboard), Q("warranty-list", WarrantyApi.expiring)},
   does  |-> {}]

AuditsList ==
  [page  |-> "audits",
   shows |-> {Q("audits", AuditsApi.list), AllStores},
   does  |-> {M("AuditsList.create", AuditsApi.create, {"audits"})}]

AuditDetail ==
  [page  |-> "audits/:id",
   shows |-> {Q("audit", AuditsApi.byId), Q("audit-summary", AuditsApi.summary)},
   does  |-> {M("AuditDetail.scan", AuditsApi.scan, {"audit", "audit-summary"}),
              M("AuditDetail.variance", AuditsApi.variance, {"audit", "audit-summary"}),
              M("AuditDetail.complete", AuditsApi.complete, {"audit"})}]

Reports ==
  [page  |-> "reports",
   shows |-> {Q("reports", ReportsApi.names), Q("report", ReportsApi.data)},
   does  |-> {}]

Skus == [page |-> "admin/skus", shows |-> {AllSkus}, does |-> {}]

SkuRow ==
  [page  |-> "admin/skus",
   shows |-> {},
   does  |-> {M("SkuRow.update", SkusApi.update, {"skus", "assets"})}]

PriceLookupRow == [page |-> "admin/skus", shows |-> {Q("price-lookup", PricesApi.lookup)}, does |-> {}]

PurchaseRequests ==
  [page  |-> "procurement",
   shows |-> {Q("prs", PurchaseApi.list), AllSkus},
   does  |-> {M("PurchaseRequests.create", PurchaseApi.create, {"prs"}),
              M("PurchaseRequests.transition", PurchaseApi.transition, {"prs"})}]

Invoices ==
  [page  |-> "invoices",
   shows |-> {Q("invoices", InvoicesApi.list), AllSuppliers},
   does  |-> {M("Invoices.upload", InvoicesApi.create, {"invoices"})}]

Software ==
  [page  |-> "software",
   shows |-> {Q("sw-summary", SoftwareApi.summary), Q("sw-titles", SoftwareApi.titles), AllSuppliers, AllUsers},
   does  |-> {M("Software.createTitle", SoftwareApi.createTitle, {"sw-titles"}),
              M("Software.createLicense", SoftwareApi.createLicense, {"sw-titles"}),
              M("Software.assign", SoftwareApi.assign, {"sw-titles"}),
              M("Software.revoke", SoftwareApi.revoke, {"sw-titles"})}]

-----------------------------------------------------------------------------
\* Toner.

TonerDashboard == [page |-> "toner", shows |-> {Q("toner-dash", TonerDashboardApi.overview)}, does |-> {}]

TonerTypes ==
  [page  |-> "toner/types",
   shows |-> {Q("toner-types", TonerTypesApi.list)},
   does  |-> {M("TonerTypes.create", TonerTypesApi.create, {"toner-types"})}]

TypeRow ==
  [page  |-> "toner/types",
   shows |-> {},
   does  |-> {M("TypeRow.update", TonerTypesApi.update, {"toner-types"})}]

TonerPlan ==
  [page  |-> "toner/plan",
   shows |-> {AllStores, Q("toner-types", TonerTypesApi.list), Q("toner-plan", TonerPlanApi.list),
              Q("toner-plan-summary", TonerPlanApi.summary)},
   does  |-> {M("TonerPlan.upsert", TonerPlanApi.upsert, {"toner-plan", "toner-plan-summary", "toner-dash"})}]

TonerOrders ==
  [page  |-> "toner/orders",
   shows |-> {Q("toner-orders", TonerOrdersApi.list)},
   does  |-> {M("TonerOrders.generate", TonerOrdersApi.generate, {"toner-orders"})}]

TonerOrderDetail ==
  [page  |-> "toner/orders/:id",
   shows |-> {Q("toner-order", TonerOrdersApi.byId)},
   does  |-> {M("TonerOrderDetail.dispatchStore", TonerOrdersApi.dispatchStore, {"toner-order"}),
              M("TonerOrderDetail.dispatchLine", TonerOrdersApi.dispatchLine, {"toner-order"}),
              M("TonerOrderDetail.close", TonerOrdersApi.close, {"toner-order"}),
              M("TonerOrderDetail.cancel", TonerOrdersApi.cancel, {"toner-order"})}]

-----------------------------------------------------------------------------
\* Stores, regions and area managers.

StoresList ==
  [page  |-> "stores",
   shows |-> {AllStores, Q("store-templates", TemplatesApi.list), Q("area-managers", AreaManagersApi.list)},
   does  |-> {M("StoresList.create", StoresApi.create, {"stores"})}]

StoreDetail ==
  [page  |-> "stores/:id",
   shows |-> {Q("store", StoresApi.byId), Q("store-compliance", ComplianceApi.forStore)},
   does  |-> {M("StoreDetail.provisionStoreLogin", StoresApi.provisionLogin, {"store"})}]

\* /admin/templates is no route of the API: the catch answers the list of templates as empty.
EditStoreModal ==
  [page  |-> "stores/:id",
   shows |-> {Lenient(Q("store-templates", {})), Lenient(Q("area-managers", AreaManagersApi.list))},
   does  |-> {M("EditStoreModal.save", StoresApi.update, {"store"})}]

DeleteStoreButton ==
  [page |-> "stores/:id", shows |-> {}, does |-> {M("DeleteStoreButton.remove", StoresApi.remove, {})}]

TransferStockModal ==
  [page  |-> "stores/:id",
   shows |-> {AllStores},
   does  |-> {M("TransferStockModal.transfer", StoresApi.transferAssets, {"store"})}]

StoreWizard ==
  [page  |-> "stores/wizard",
   shows |-> {Q("templates", TemplatesApi.list)},
   does  |-> {M("StoreWizard.run", WizardApi.run, {})}]

StoreBackups ==
  [page  |-> "stores/:id/backups",
   shows |-> {Polled(Q("store-backups", BackupsApi.forStore))},
   does  |-> {M("StoreBackups.addPc", BackupsApi.upsertPc, {"store-backups"}),
              M("StoreBackups.updateJob", BackupsApi.updateJob, {"store-backups"})}]

PcRow ==
  [page  |-> "stores/:id/backups",
   shows |-> {},
   does  |-> {M("PcRow.save", BackupsApi.upsertPc, {"store-backups"}),
              M("PcRow.toggle", BackupsApi.upsertPc, {"store-backups"}),
              M("PcRow.remove", BackupsApi.removePc, {"store-backups"})}]

Templates ==
  [page  |-> "admin/templates",
   shows |-> {Q("store-templates", TemplatesApi.list), Q("categories", CategoriesApi.list)},
   does  |-> {M("Templates.createTpl", TemplatesApi.create, {"store-templates"})}]

TemplateCard ==
  [page  |-> "admin/templates",
   shows |-> {},
   does  |-> {M("TemplateCard.update", TemplatesApi.update, {"store-templates"}),
              M("TemplateCard.upsertItem", TemplatesApi.upsertItem, {"store-templates"}),
              M("TemplateCard.removeItem", TemplatesApi.removeItem, {"store-templates"}),
              M("TemplateCard.removeTpl", TemplatesApi.remove, {"store-templates"})}]

Regions ==
  [page  |-> "regions",
   shows |-> {Q("regions", RegionsApi.list)},
   does  |-> {M("Regions.save", RegionsApi.save, {"regions"}), M("Regions.remove", RegionsApi.remove, {"regions"})}]

AreaManagers ==
  [page  |-> "area-managers",
   shows |-> {Q("area-managers", AreaManagersApi.list), Q("regions", RegionsApi.list), Lenient(AllUsers)},
   does  |-> {M("AreaManagers.save", AreaManagersApi.save, {"area-managers"}),
              M("AreaManagers.remove", AreaManagersApi.remove, {"area-managers"}),
              M("AreaManagers.provisionLogin", AreaManagersApi.provisionLogin, {})}]

AreaManagerDetail ==
  [page  |-> "area-managers",
   shows |-> {Q("area-manager", AreaManagersApi.get), AllStores},
   does  |-> {M("AreaManagerDetail.save", AreaManagersApi.setStores, {"area-manager", "area-managers"})}]

Departments ==
  [page  |-> "departments",
   shows |-> {AllDepartments},
   does  |-> {M("Departments.create", DepartmentsApi.create, {"departments"}),
              M("Departments.update", DepartmentsApi.update, {"departments"}),
              M("Departments.remove", DepartmentsApi.remove, {"departments"})}]

Reminders ==
  [page  |-> "reminders",
   shows |-> {Q("reminders", RemindersApi.list), Lenient(AllUsers)},
   does  |-> {M("Reminders.save", RemindersApi.save, {"reminders"}),
              M("Reminders.toggle", RemindersApi.toggle, {"reminders"}),
              M("Reminders.remove", RemindersApi.remove, {"reminders"})}]

-----------------------------------------------------------------------------
\* The helpdesk.

HelpdeskQueue ==
  [page  |-> "helpdesk",
   shows |-> {AllStores, HelpdeskCategories, HelpdeskUsers, Polled(Q("hd-queue", TicketsApi.list))},
   does  |-> {}]

HelpdeskNew ==
  [page  |-> "helpdesk/new",
   shows |-> {AllStores, HelpdeskCategories, Lenient(Q("depts", DepartmentsApi.list)),
              Q("assets-for-store", AssetsApi.list)},
   does  |-> {M("HelpdeskNew.create", TicketsApi.create, {})}]

DeflectionSuggestions == [page |-> "helpdesk/new", shows |-> {Q("deflect", KbApi.suggest)}, does |-> {}]

HelpdeskDetail ==
  [page  |-> "helpdesk/tickets/:id",
   shows |-> {Polled(Q("ticket", TicketsApi.get)), HelpdeskCategories, HelpdeskUsers},
   does  |-> {M("HelpdeskDetail.patch", TicketsApi.update, {"ticket"}),
              M("HelpdeskDetail.comment", TicketsApi.addComment, {"ticket"}),
              M("HelpdeskDetail.rate", TicketsApi.rate, {"ticket"}),
              M("HelpdeskDetail.upload", TicketsApi.addAttachment, {"ticket"}),
              M("HelpdeskDetail.deleteAttachment", TicketsApi.deleteAttachment, {"ticket"})}]

ComposeBox == [page |-> "helpdesk/tickets/:id", shows |-> {Q("canned", CannedApi.list)}, does |-> {}]

TicketV3Panel ==
  [page  |-> "helpdesk/tickets/:id",
   shows |-> {Q("t-watchers", TicketLinksApi.watchers), Q("t-links", TicketLinksApi.links),
              Q("t-approvals", TicketLinksApi.approvals), Polled(Lenient(Q("t-burn", MetricsApi.burnDown)))},
   does  |-> {M("TicketV3Panel.addWatcher", TicketLinksApi.addWatcher, {"t-watchers"}),
              M("TicketV3Panel.rmWatcher", TicketLinksApi.removeWatcher, {"t-watchers"}),
              M("TicketV3Panel.addLink", TicketLinksApi.link, {"t-links"}),
              M("TicketV3Panel.rmLink", TicketLinksApi.unlink, {"t-links"}),
              M("TicketV3Panel.split", TicketLinksApi.split, {"t-links"}),
              M("TicketV3Panel.requestAppr", TicketLinksApi.requestApproval, {"t-approvals"}),
              M("TicketV3Panel.decideAppr", TicketLinksApi.decideApproval, {"t-approvals"})}]

HelpdeskReports == [page |-> "helpdesk/reports", shows |-> {Q("hd-reports", TicketsApi.reports)}, does |-> {}]

HelpdeskAnalytics ==
  [page  |-> "helpdesk/analytics",
   shows |-> {Q("hd-trends", MetricsApi.trends), Q("hd-fcrcsat", MetricsApi.fcrCsat),
              Q("hd-cost", MetricsApi.cost), Q("hd-repeat", MetricsApi.repeat)},
   does  |-> {}]

HelpdeskAudit ==
  [page  |-> "helpdesk/audit",
   shows |-> {Lenient(Q("users-mini", UsersApi.list)), Q("tickets-by-code", TicketsApi.list),
              Q("hd-audit", MetricsApi.events)},
   does  |-> {}]

HelpdeskAdmin ==
  [page  |-> "helpdesk/admin",
   shows |-> {Q("hd-cats-admin", HelpdeskTablesApi.categories), Q("hd-slas", HelpdeskTablesApi.policies),
              HelpdeskUsers},
   does  |-> {M("HelpdeskAdmin.save", HelpdeskTablesApi.save, {"hd-cats-admin", "hd-cats"}),
              M("HelpdeskAdmin.remove", HelpdeskTablesApi.remove, {"hd-cats-admin"})}]

EmailIngestPanel ==
  [page  |-> "helpdesk/admin",
   shows |-> {Polled(Q("hd-email-status", MailApi.status))},
   does  |-> {M("EmailIngestPanel.poll", MailApi.pollNow, {"hd-email-status"})}]

CannedResponsesPanel ==
  [page  |-> "helpdesk/admin",
   shows |-> {Q("hd-canned-all", CannedApi.listAll)},
   does  |-> {M("CannedResponsesPanel.save", CannedApi.save, {"hd-canned-all", "canned"}),
              M("CannedResponsesPanel.remove", CannedApi.remove, {"hd-canned-all"})}]

WebhooksPanel ==
  [page  |-> "helpdesk/admin",
   shows |-> {Lenient(Q("hd-webhooks", WebhooksApi.list)), Polled(Q("hd-webhook-recent", WebhooksApi.deliveries))},
   does  |-> {M("WebhooksPanel.save", WebhooksApi.create, {"hd-webhooks"}),
              M("WebhooksPanel.toggle", WebhooksApi.update, {"hd-webhooks"}),
              M("WebhooksPanel.remove", WebhooksApi.remove, {"hd-webhooks"}),
              M("WebhooksPanel.test", WebhooksApi.test, {})}]

HelpdeskBusinessHours ==
  [page  |-> "helpdesk/business-hours",
   shows |-> {Q("bh", HoursApi.get), Q("holidays", HoursApi.holidays)},
   does  |-> {M("HelpdeskBusinessHours.save", HoursApi.update, {"bh"}),
              M("HelpdeskBusinessHours.addH", HoursApi.addHoliday, {"holidays"}),
              M("HelpdeskBusinessHours.rmH", HoursApi.removeHoliday, {"holidays"})}]

HelpdeskExports ==
  [page  |-> "helpdesk/exports",
   shows |-> {Q("hd-report-list", ExportsApi.names), Q("hd-scheduled", ExportsApi.scheduled)},
   does  |-> {M("HelpdeskExports.createSched", ExportsApi.create, {"hd-scheduled"}),
              M("HelpdeskExports.deleteSched", ExportsApi.remove, {"hd-scheduled"})}]

HelpdeskImport ==
  [page |-> "helpdesk/import", shows |-> {}, does |-> {M("HelpdeskImport.upload", LegacyImportApi.run, {})}]

HelpdeskOnCall ==
  [page  |-> "helpdesk/oncall",
   shows |-> {Q("oncall-shifts", OnCallApi.shifts), Lenient(Q("users-techs", UsersApi.list))},
   does  |-> {M("HelpdeskOnCall.save", OnCallApi.save, {"oncall-shifts"}),
              M("HelpdeskOnCall.remove", OnCallApi.remove, {"oncall-shifts"}),
              M("HelpdeskOnCall.broadcast", OnCallApi.broadcast, {})}]

KnowledgeBase ==
  [page  |-> "helpdesk/kb",
   shows |-> {Q("kb-list", KbApi.list), Q("kb-article", KbApi.bySlug)},
   does  |-> {M("KnowledgeBase.create", KbApi.create, {"kb-list"}),
              M("KnowledgeBase.update", KbApi.update, {"kb-list", "kb-article"}),
              M("KnowledgeBase.remove", KbApi.remove, {"kb-list"}),
              M("KnowledgeBase.vote", KbApi.vote, {"kb-article"})}]

-----------------------------------------------------------------------------
\* Signage.

SignageDevices ==
  [page  |-> "signage/devices",
   shows |-> {Polled(Q("signage-devices", DevicesApi.list)), AllStores,
              Polled(Lenient(Q("fleet-freeze", ExecApi.freeze))), Polled(Lenient(Q("hmac-bypass", ExecApi.bypass)))},
   does  |-> {M("SignageDevices.update", DevicesApi.update, {"signage-devices"}),
              M("SignageDevices.resync", DevicesApi.resync, {"signage-devices"}),
              M("SignageDevices.removeDevice", DevicesApi.remove, {"signage-devices"}),
              M("SignageDevices.syncStore", ExecApi.syncStore, {}),
              M("SignageDevices.reinstallStore", ExecApi.reinstallStore, {}),
              M("SignageDevices.toggleFreeze", ExecApi.setFreeze, {"fleet-freeze"}),
              M("SignageDevices.setHmacBypass", ExecApi.setBypass, {"hmac-bypass"})}]

PeekModal ==
  [page  |-> "signage/devices",
   shows |-> {Polled(Q("signage-snapshot", DevicesApi.snapshot))},
   does  |-> {M("PeekModal.request", DevicesApi.requestSnapshot, {})}]

SignageDeviceDetail ==
  [page  |-> "signage/devices/:id",
   shows |-> {Polled(Q("signage-device", DevicesApi.get)), Polled(Q("signage-snapshot", DevicesApi.snapshot))},
   does  |-> {M("SignageDeviceDetail.requestSnap", DevicesApi.requestSnapshot, {"signage-snapshot"})}]

OverviewTab ==
  [page  |-> "signage/devices/:id",
   shows |-> {},
   does  |-> {M("OverviewTab.updatePerf", DevicesApi.update, {"signage-device"})}]

EventsTab == [page |-> "signage/devices/:id", shows |-> {Polled(Q("signage-events", DevicesApi.events))}, does |-> {}]

CommandsTab ==
  [page  |-> "signage/devices/:id",
   shows |-> {Polled(Q("signage-cmds", DevicesApi.commands)), Q("exec-actions", ExecApi.actions)},
   does  |-> {M("CommandsTab.runSimple", DevicesApi.queueCommand, {"signage-cmds"}),
              M("CommandsTab.runExec", ExecApi.queue, {"signage-cmds"})}]

PlaybackTab == [page |-> "signage/devices/:id", shows |-> {Polled(Q("signage-trace", DevicesApi.trace))}, does |-> {}]

SignageInstall ==
  [page |-> "signage/install", shows |-> {Lenient(AllStores), Q("system-public-config", SystemApi.publicConfig)}, does |-> {}]

SignageVideos ==
  [page  |-> "signage/videos",
   shows |-> {Q("signage-videos", ContentApi.videos)},
   does  |-> {M("SignageVideos.upload", ContentApi.addVideo, {"signage-videos"}),
              M("SignageVideos.update", ContentApi.updateVideo, {"signage-videos"}),
              M("SignageVideos.remove", ContentApi.removeVideo, {"signage-videos"})}]

TranscodeCell ==
  [page  |-> "signage/videos",
   shows |-> {},
   does  |-> {M("TranscodeCell.retry", RetranscodeApi.retry, {"signage-videos"})}]

SignagePlaylists ==
  [page  |-> "signage/playlists",
   shows |-> {Q("signage-playlists", ContentApi.playlists), Q("signage-videos", ContentApi.videos), AllStores,
              Lenient(Q("regions", RegionsApi.list)), Q("signage-assigns", ContentApi.assignments)},
   does  |-> {M("SignagePlaylists.create", ContentApi.addPlaylist, {"signage-playlists"}),
              M("SignagePlaylists.del", ContentApi.dropPlaylist, {"signage-playlists"}),
              M("SignagePlaylists.setItems", ContentApi.setItems, {"signage-playlists"}),
              M("SignagePlaylists.assign", ContentApi.assign, {"signage-assigns"}),
              M("SignagePlaylists.unassign", ContentApi.unassign, {"signage-assigns"}),
              M("SignagePlaylists.bulkAssign", ContentApi.bulkAssign, {"signage-assigns"})}]

-----------------------------------------------------------------------------
\* PCs, routers, cameras and PIN pads.

AgentEnrollment ==
  [page  |-> "admin/agents",
   shows |-> {AllStores, AllDepartments, Q("agent-pcs", AgentsApi.pcs), Q("agent-tokens", AgentsApi.tokens),
              Q("pc-software", AgentsApi.software), Q("pc", AgentsApi.pc),
              Q("system-public-config", SystemApi.publicConfig)},
   does  |-> {M("AgentEnrollment.issue", AgentsApi.issueToken, {"agent-tokens"}),
              M("AgentEnrollment.revoke", AgentsApi.revokeToken, {"agent-tokens"}),
              M("AgentEnrollment.saveBackupPaths", AgentsApi.setBackupPaths, {"agent-pcs", "pc"}),
              M("AgentEnrollment.togglePcActive", AgentsApi.setActive, {"agent-pcs"})}]

ApiKeys ==
  [page  |-> "admin/api-keys",
   shows |-> {Q("api-keys", ApiKeysApi.list)},
   does  |-> {M("ApiKeys.create", ApiKeysApi.create, {"api-keys"}), M("ApiKeys.revoke", ApiKeysApi.revoke, {"api-keys"})}]

Rmm == [page |-> "rmm", shows |-> {Polled(Q("rmm-connections", RmmApi.connections))}, does |-> {}]

PcDetail ==
  [page  |-> "rmm",
   shows |-> {Polled(Q("rmm-pc", RmmApi.connection)), Polled(Q("rmm-metrics", RmmApi.metrics)),
              Polled(Q("rmm-cmds", RmmApi.commands))},
   does  |-> {M("PcDetail.runShell", RmmApi.queue, {"rmm-cmds"}), M("PcDetail.restart", RmmApi.queue, {"rmm-cmds"})}]

Mikrotik ==
  [page  |-> "mikrotik",
   shows |-> {Q("mk-pools", RoutersApi.pools), Q("mk-configs", RoutersApi.configs), Q("mk-preview", RoutersApi.preview)},
   does  |-> {M("Mikrotik.generate", RoutersApi.generate, {"mk-pools", "mk-preview", "mk-configs"}),
              M("Mikrotik.deleteConfig", RoutersApi.remove, {"mk-configs", "mk-pools", "mk-preview"}),
              M("Mikrotik.savePool", RoutersApi.updatePool, {"mk-pools"})}]

Dvrs ==
  [page  |-> "stores/dvrs",
   shows |-> {AllStores, Q("dvrs", DvrsApi.list)},
   does  |-> {M("Dvrs.create", DvrsApi.create, {"dvrs"}), M("Dvrs.update", DvrsApi.update, {"dvrs"}),
              M("Dvrs.remove", DvrsApi.remove, {"dvrs"})}]

DvrViewer == [page |-> "stores/dvrs", shows |-> {Q("dvr-endpoints", DvrsApi.endpoints)}, does |-> {}]

\* mutant: the list is renewed, the tiles above it are not.
PinPadsListOnly ==
  [page  |-> "stores/pinpads",
   shows |-> {AllStores, Q("pinpads", PinPadsApi.list), Q("pinpad-summary", PinPadsApi.summary)},
   does  |-> {M("PinPads.confirm", PinPadsApi.confirm, {"pinpads"}),
              M("PinPads.create", PinPadsApi.create, {"pinpads"}),
              M("PinPads.doReturn", PinPadsApi.return, {"pinpads"})}]

PinPads ==
  LET all == {"pinpads", "pinpad-summary"}
  IN  [page  |-> "stores/pinpads",
       shows |-> {AllStores, Q("pinpads", PinPadsApi.list), Q("pinpad-summary", PinPadsApi.summary)},
       does  |-> {M("PinPads.confirm", PinPadsApi.confirm, all), M("PinPads.create", PinPadsApi.create, all),
                  M("PinPads.doReturn", PinPadsApi.return, all)}]

Discovery == [page |-> "discovery", shows |-> {Q("discovery", DiscoveryApi.recent)}, does |-> {}]

-----------------------------------------------------------------------------
\* Users, the dashboard and the system itself.

Users ==
  [page  |-> "admin/users",
   shows |-> {AllUsers, Q("roles", UsersApi.roles), AllStores},
   does  |-> {M("Users.create", UsersApi.create, {"users"}), M("Users.provisionMarketing", UsersApi.provision, {"users"})}]

UserCard ==
  [page  |-> "admin/users",
   shows |-> {Q("user-detail", UsersApi.byId), Q("perms-list", UsersApi.permissions)},
   does  |-> {M("UserCard.updateRole", UsersApi.updateRole, {"users", "user-detail"}),
              M("UserCard.toggleActive", UsersApi.setActive, {"users"}),
              M("UserCard.resetPassword", UsersApi.resetPassword, {}),
              M("UserCard.setOverride", UsersApi.setOverride, {"user-detail"})}]

AreaManagerTechPicker ==
  [page  |-> "admin/users",
   shows |-> {AllUsers},
   does  |-> {M("AreaManagerTechPicker.update", UsersApi.update, {"users", "user-detail"})}]

StoreAccessModal ==
  [page  |-> "admin/users",
   shows |-> {AllStores, Q("user-access", UsersApi.storeAccess)},
   does  |-> {M("StoreAccessModal.save", UsersApi.setStoreAccess, {"user-access"})}]

TechSkillsEditor ==
  [page  |-> "admin/users",
   shows |-> {Lenient(Q("tech-skills", SkillsApi.list))},
   does  |-> {M("TechSkillsEditor.save", SkillsApi.set, {"tech-skills"})}]

\* The screen asks again (me.refetch) where the others invalidate: the same, while it is open.
Security ==
  [page  |-> "admin/security",
   shows |-> {Q("me", AuthApi.me)},
   does  |-> {M("Security.setup", TwoFactorApi.setup, {}), M("Security.verify", TwoFactorApi.enable, {"me"}),
              M("Security.disable", TwoFactorApi.disable, {"me"})}]

ForceChangePasswordModal ==
  [page |-> "layout", shows |-> {}, does |-> {M("ForceChangePasswordModal.change", AuthApi.changePassword, {})}]

\* The frame around every screen.
Layout ==
  [page  |-> "layout",
   shows |-> {Lenient(Q("nav-prefs", NavApi.list)), Polled(Lenient(Q("update-status", UpdatesApi.status)))},
   does  |-> {M("Layout.savePrefs", NavApi.save, {"nav-prefs"}), M("Layout.resetPrefs", NavApi.reset, {"nav-prefs"})}]

Dashboard ==
  [page  |-> "dashboard",
   shows |-> {Q("dashboard-widgets", DashboardApi.widgets)},
   does  |-> {M("Dashboard.move", DashboardApi.reorder, {"dashboard-widgets"}),
              M("Dashboard.remove", DashboardApi.remove, {"dashboard-widgets"}),
              M("Dashboard.updateWidth", DashboardApi.update, {"dashboard-widgets"})}]

WidgetFrame == [page |-> "dashboard", shows |-> {Polled(Q("widget", WidgetApi.data))}, does |-> {}]

CatalogDrawer ==
  [page  |-> "dashboard",
   shows |-> {Q("dashboard-catalog", DashboardApi.catalog)},
   does  |-> {M("CatalogDrawer.add", DashboardApi.add, {"dashboard-widgets"})}]

ActivityLog == [page |-> "admin/activity", shows |-> {Q("activity", ActivityApi.list)}, does |-> {}]

Alerts ==
  LET both == {"alerts", "alerts-summary"}
  IN  [page  |-> "alerts",
       shows |-> {Q("alerts", AlertsApi.list), Q("alerts-summary", AlertsApi.summary)},
       does  |-> {M("Alerts.dismiss", AlertsApi.dismiss, both), M("Alerts.run", AlertsApi.run, both)}]

Updates ==
  [page  |-> "admin/updates",
   shows |-> {Polled(Q("update-status", UpdatesApi.status)), Polled(Q("update-log", UpdatesApi.log))},
   does  |-> {M("Updates.install", UpdatesApi.install, {"update-status"})}]

PublicStatus == [page |-> "status", shows |-> {Polled(Q("public-status", IncidentsApi.publicStatus))}, does |-> {}]

-----------------------------------------------------------------------------
Screens ==
  {AssetsList, AssetDetail, AssetsImport, HqAssets, StockByLocation, GrvList, IbtList, Repairs, Warranties,
   AuditsList, AuditDetail, Reports, Skus, SkuRow, PriceLookupRow, PurchaseRequests, Invoices, Software,
   TonerDashboard, TonerTypes, TypeRow, TonerPlan, TonerOrders, TonerOrderDetail,
   StoresList, StoreDetail, EditStoreModal, DeleteStoreButton, TransferStockModal, StoreWizard, StoreBackups,
   PcRow, Templates, TemplateCard, Regions, AreaManagers, AreaManagerDetail, Departments, Reminders,
   HelpdeskQueue, HelpdeskNew, DeflectionSuggestions, HelpdeskDetail, ComposeBox, TicketV3Panel,
   HelpdeskReports, HelpdeskAnalytics, HelpdeskAudit, HelpdeskAdmin, EmailIngestPanel, CannedResponsesPanel,
   WebhooksPanel, HelpdeskBusinessHours, HelpdeskExports, HelpdeskImport, HelpdeskOnCall, KnowledgeBase,
   SignageDevices, PeekModal, SignageDeviceDetail, OverviewTab, EventsTab, CommandsTab, PlaybackTab,
   SignageInstall, SignageVideos, TranscodeCell, SignagePlaylists,
   AgentEnrollment, ApiKeys, Rmm, PcDetail, Mikrotik, Dvrs, DvrViewer, PinPads, Discovery,
   Users, UserCard, AreaManagerTechPicker, StoreAccessModal, TechSkillsEditor, Security,
   ForceChangePasswordModal, Layout, Dashboard, WidgetFrame, CatalogDrawer, ActivityLog, Alerts, Updates,
   PublicStatus}

\* Two screens are together when one frames the other or they are parts of one page.
Together(s, t) == s.page = t.page \/ "layout" \in {s.page, t.page}

\* The operations and the queries they change, on one page or tied by an invalidation.
Tied(s, t) ==
  {[op |-> z[1].name, key |-> z[2].key, here |-> Together(s, t), told |-> z[2].key \in z[1].tells,
    polled |-> z[2].polled, lenient |-> z[2].lenient] :
     z \in {y \in s.does \X t.shows : /\ y[1].writes \cap y[2].reads # {}
                                      /\ Together(s, t) \/ y[2].key \in y[1].tells}}

Pairs == UNION {Tied(s, t) : s \in Screens, t \in Screens}

=============================================================================

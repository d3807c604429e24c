------------------------------ MODULE ApiTables ------------------------------
(***************************************************************************)
(* The REST API as the web client depends on it: for every endpoint a      *)
(* screen calls, the tables of the database it stands on.  For a GET they  *)
(* are the tables its answer is made of, for any other method the tables   *)
(* whose rows it may write.  One record for each service, one field for    *)
(* each of its operations; operations that create and edit the same rows   *)
(* from the same form share a field (save).                                *)
(***************************************************************************)

\* Assets and stock.
AssetsApi ==
  [list             |-> {"asset", "sku", "category", "supplier", "location", "store", "user", "department"},
   byId             |-> {"asset", "sku", "category", "supplier", "location", "store", "user",
                         "assetHistory", "repair", "helpdeskLink"},
   create           |-> {"asset", "assetHistory"},
   assignDepartment |-> {"asset", "assetHistory"}]

DecommissionApi == [decommission |-> {"decommission", "asset", "assetHistory"}]

ImportApi == [dryRun |-> {}, commit |-> {"asset", "assetHistory"}]

SkusApi == [list |-> {"sku", "category"}, update |-> {"sku", "asset"}]

SuppliersApi == [list |-> {"supplier"}]

CategoriesApi == [list |-> {"category"}]

LocationsApi == [list |-> {"location"}]

StockApi == [byLocation |-> {"stock", "sku", "category", "location"}, upsert |-> {"stock"}]

ReportsApi ==
  [names |-> {},
   data  |-> {"asset", "sku", "category", "store", "supplier", "location", "repair"}]

WarrantyApi ==
  [expiring  |-> {"asset", "sku", "supplier", "location", "store"},
   dashboard |-> {"asset", "sku", "supplier", "location", "store"}]

RepairsApi ==
  [list       |-> {"repair", "asset", "sku", "location", "supplier"},
   create     |-> {"repair", "assetHistory"},
   transition |-> {"repair", "asset", "assetHistory"}]

AuditsApi ==
  [list     |-> {"audit", "auditLine", "store"},
   byId     |-> {"audit", "auditLine", "store", "asset", "sku", "category"},
   summary  |-> {"auditLine"},
   create   |-> {"audit", "auditLine"},
   scan     |-> {"auditLine"},
   variance |-> {"auditLine"},
   complete |-> {"audit", "auditLine"}]

GrvApi ==
  [list    |-> {"grv", "grvLine", "supplier", "sku"},
   create  |-> {"grv", "grvLine"},
   confirm |-> {"grv", "asset", "assetHistory", "stock", "stockMovement"}]

IbtApi ==
  [list     |-> {"ibt", "ibtLine", "location", "user", "sku", "asset"},
   create   |-> {"ibt", "ibtLine"},
   approve  |-> {"ibt"},
   dispatch |-> {"ibt", "asset", "assetHistory"},
   receive  |-> {"ibt", "dispatch", "asset", "assetHistory", "stock", "stockMovement"}]

\* Buying.
PurchaseApi ==
  [list       |-> {"purchaseRequest", "user", "sku"},
   create     |-> {"purchaseRequest"},
   transition |-> {"purchaseRequest"}]

InvoicesApi == [list |-> {"invoice", "supplier", "grv"}, create |-> {"invoice"}]

SoftwareApi ==
  [titles        |-> {"softwareTitle", "softwareLicense", "softwareAssignment"},
   summary       |-> {"softwareTitle", "softwareLicense", "softwareAssignment"},
   createTitle   |-> {"softwareTitle"},
   createLicense |-> {"softwareLicense"},
   assign        |-> {"softwareAssignment"},
   revoke        |-> {"softwareAssignment"}]

TonerTypesApi == [list |-> {"tonerType"}, create |-> {"tonerType"}, update |-> {"tonerType"}]

TonerPlanApi ==
  [list    |-> {"tonerPlan", "store", "tonerType"},
   summary |-> {"tonerPlan", "store", "tonerType"},
   upsert  |-> {"tonerPlan"}]

TonerDashboardApi == [overview |-> {"tonerType", "tonerPlan", "tonerOrder", "tonerOrderLine"}]

TonerOrdersApi ==
  [list          |-> {"tonerOrder", "tonerOrderLine"},
   byId          |-> {"tonerOrder", "tonerOrderLine", "store", "tonerType"},
   generate      |-> {"tonerOrder", "tonerOrderLine"},
   dispatchLine  |-> {"tonerType", "tonerOrderLine", "tonerOrder"},
   dispatchStore |-> {"tonerType", "tonerOrderLine", "tonerOrder"},
   close         |-> {"tonerOrder"},
   cancel        |-> {"tonerOrder"}]

\* Stores and the people who look after them.
StoresApi ==
  [list           |-> {"store", "storeTemplate", "location"},
   byId           |-> {"store", "storeTemplate", "storeTemplateItem", "category", "location", "asset", "sku"},
   create         |-> {"store", "location", "backupJob", "user", "userStoreAccess"},
   update         |-> {"store", "location"},
   remove         |-> {"store", "backupJob", "userStoreAccess", "dvr", "ticket", "asset"},
   transferAssets |-> {"asset", "assetHistory"},
   provisionLogin |-> {"store", "user", "userStoreAccess"}]

WizardApi == [run |-> {}]

ComplianceApi == [forStore |-> {"store", "storeTemplate", "storeTemplateItem", "category", "asset", "sku"}]

TemplatesApi ==
  [list       |-> {"storeTemplate", "storeTemplateItem", "category"},
   create     |-> {"storeTemplate"},
   update     |-> {"storeTemplate"},
   remove     |-> {"storeTemplate", "storeTemplateItem"},
   upsertItem |-> {"storeTemplateItem"},
   removeItem |-> {"storeTemplateItem"}]

RegionsApi ==
  [list |-> {"region", "store", "areaManager"}, save |-> {"region"}, remove |-> {"region"}]

AreaManagersApi ==
  [list           |-> {"areaManager", "region", "user", "store", "ticket"},
   get            |-> {"areaManager", "region", "user", "store"},
   save           |-> {"areaManager", "store", "user"},
   remove         |-> {"areaManager", "store"},
   setStores      |-> {"store"},
   provisionLogin |-> {"user"}]

DepartmentsApi ==
  [list |-> {"department", "asset"}, create |-> {"department"},
   update |-> {"department"}, remove |-> {"department"}]

RemindersApi ==
  [list |-> {"reminder", "user"}, save |-> {"reminder"}, toggle |-> {"reminder"}, remove |-> {"reminder"}]

\* The helpdesk.
TicketsApi ==
  [list             |-> {"ticket", "user", "store", "ticketCategory", "ticketComment"},
   get              |-> {"ticket", "user", "store", "department", "asset", "sku", "ticketCategory", "slaPolicy",
                         "ticketComment", "ticketEvent", "ticketAttachment"},
   reports          |-> {"ticket", "ticketCategory", "store", "user"},
   create           |-> {"ticket", "ticketEvent"},
   update           |-> {"ticket", "ticketEvent"},
   addComment       |-> {"ticketComment", "ticketEvent", "ticket", "ticketWatcher"},
   rate             |-> {"ticket"},
   addAttachment    |-> {"ticketAttachment", "ticketEvent"},
   deleteAttachment |-> {"ticketAttachment"}]

TicketLinksApi ==
  [watchers        |-> {"ticketWatcher", "user"},
   links           |-> {"ticketLink", "ticket"},
   approvals       |-> {"ticketApproval", "user"},
   addWatcher      |-> {"ticketWatcher"},
   removeWatcher   |-> {"ticketWatcher"},
   link            |-> {"ticketLink", "ticket", "ticketComment"},
   unlink          |-> {"ticketLink"},
   split           |-> {"ticket", "ticketComment", "ticketLink", "ticketEvent"},
   requestApproval |-> {"ticketApproval", "ticket"},
   decideApproval  |-> {"ticketApproval"}]

KbApi ==
  [list    |-> {"kbArticle", "ticketCategory"},
   bySlug  |-> {"kbArticle"},
   suggest |-> {"kbArticle"},
   create  |-> {"kbArticle"},
   update  |-> {"kbArticle"},
   remove  |-> {"kbArticle"},
   vote    |-> {"kbArticle"}]

MetricsApi ==
  [burnDown |-> {"ticket", "slaPolicy", "slaPause"},
   trends   |-> {"ticket"},
   fcrCsat  |-> {"ticket"},
   cost     |-> {"ticket", "ticketCategory"},
   repeat   |-> {"ticket", "asset", "sku"},
   events   |-> {"ticketEvent", "user", "ticket"}]

HoursApi ==
  [get |-> {"businessHours"}, holidays |-> {"holiday"}, update |-> {"businessHours"},
   addHoliday |-> {"holiday"}, removeHoliday |-> {"holiday"}]

SkillsApi == [list |-> {"techSkill"}, set |-> {"techSkill"}]

HelpdeskTablesApi ==
  [categories |-> {"ticketCategory", "user", "slaPolicy"},
   policies   |-> {"slaPolicy"},
   save       |-> {"ticketCategory"},
   remove     |-> {"ticketCategory"}]

CannedApi ==
  [list |-> {"cannedResponse", "ticketCategory"}, listAll |-> {"cannedResponse", "ticketCategory"},
   save |-> {"cannedResponse"}, remove |-> {"cannedResponse"}]

WebhooksApi ==
  [list       |-> {"webhook"},
   deliveries |-> {"webhookDelivery"},
   create     |-> {"webhook"},
   update     |-> {"webhook"},
   remove     |-> {"webhook"},
   test       |-> {"webhookDelivery", "webhook"}]

\* What /helpdesk/email/status answers is the server's environment.
MailApi == [status |-> {}, pollNow |-> {"ticket", "ticketComment", "ticketEvent", "ticketAttachment"}]

ExportsApi ==
  [names |-> {}, scheduled |-> {"scheduledReport"}, create |-> {"scheduledReport"}, remove |-> {"scheduledReport"}]

LegacyImportApi == [run |-> {"ticketCategory", "ticket"}]

OnCallApi ==
  [shifts |-> {"onCallShift", "user"}, save |-> {"onCallShift"}, remove |-> {"onCallShift"},
   broadcast |-> {"onCallShift"}]

\* Signage.
DevicesApi ==
  [list            |-> {"signageDevice", "store"},
   get             |-> {"signageDevice", "store", "signageHeartbeat", "signageAssignment", "signagePlaylist"},
   snapshot        |-> {"signageDevice"},
   events          |-> {"signageEvent"},
   commands        |-> {"signagePlayerCommand", "user"},
   trace           |-> {"signageDevice", "store", "signageAssignment", "signagePlaylist", "region",
                        "signagePlaylistItem", "signageVideo"},
   update          |-> {"signageDevice"},
   remove          |-> {"signageAssignment", "signageDevice"},
   resync          |-> {"signageDevice"},
   requestSnapshot |-> {"signageDevice"},
   queueCommand    |-> {"signagePlayerCommand"}]

ExecApi ==
  [actions        |-> {},
   freeze         |-> {"fleetFreeze"},
   bypass         |-> {"hmacBypass"},
   setFreeze      |-> {"fleetFreeze"},
   setBypass      |-> {"hmacBypass"},
   queue          |-> {"signagePlayerCommand"},
   syncStore      |-> {"signagePlayerCommand"},
   reinstallStore |-> {"signagePlayerCommand"}]

ContentApi ==
  [videos       |-> {"signageVideo", "user", "signageVideoVariant"},
   playlists    |-> {"signagePlaylist", "signagePlaylistItem", "signageVideo"},
   assignments  |-> {"signageAssignment", "signagePlaylist", "signageDevice", "store", "region"},
   addVideo     |-> {"signageVideo"},
   updateVideo  |-> {"signageVideo"},
   removeVideo  |-> {"signageVideo", "signageVideoVariant"},
   addPlaylist  |-> {"signagePlaylist"},
   setItems     |-> {"signagePlaylistItem"},
   dropPlaylist |-> {"signageAssignment", "signagePlaylist", "signagePlaylistItem"},
   assign       |-> {"signageAssignment"},
   bulkAssign   |-> {"signageAssignment"},
   unassign     |-> {"signageAssignment"}]

RetranscodeApi == [retry |-> {"signageVideo", "signageVideoVariant"}]

\* PCs, routers, cameras and PIN pads.
AgentsApi ==
  [tokens         |-> {"enrollmentToken"},
   pcs            |-> {"storePc", "store", "department", "backupRun"},
   pc             |-> {"storePc", "store", "department"},
   software       |-> {"pcSoftwareEntry"},
   issueToken     |-> {"enrollmentToken"},
   revokeToken    |-> {"enrollmentToken"},
   setBackupPaths |-> {"storePc"},
   setActive      |-> {"storePc"}]

ApiKeysApi == [list |-> {"apiKey"}, create |-> {"apiKey"}, revoke |-> {"apiKey"}]

BackupsApi ==
  [forStore |-> {"store", "backupJob", "storePc", "backupRun"},
   updateJob |-> {"backupJob"}, upsertPc |-> {"storePc"}, removePc |-> {"storePc"}]

RmmApi ==
  [connections |-> {"rmmConnection"},
   connection  |-> {"rmmConnection"},
   metrics     |-> {"rmmConnection", "rmmMetric"},
   commands    |-> {"rmmConnection", "rmmCommand", "user"},
   queue       |-> {"rmmCommand"}]

RoutersApi ==
  [pools      |-> {"mikrotikNetworkPool"},
   preview    |-> {"mikrotikNetworkPool"},
   configs    |-> {"mikrotikConfig"},
   updatePool |-> {"mikrotikNetworkPool"},
   generate   |-> {"mikrotikConfig", "mikrotikNetworkPool"},
   remove     |-> {"mikrotikConfig", "mikrotikNetworkPool"}]

DvrsApi ==
  [list |-> {"dvr", "store"}, endpoints |-> {"dvr", "store"}, create |-> {"dvr"}, update |-> {"dvr"},
   remove |-> {"dvr"}]

PinPadsApi ==
  [list |-> {"pinPad"}, summary |-> {"pinPad"}, confirm |-> {"pinPad", "pinPadEvent"},
   create |-> {"pinPad", "pinPadEvent"}, return |-> {"pinPad", "pinPadEvent"}]

DiscoveryApi == [recent |-> {"discoveryReport"}]

\* Users, the dashboard and the system itself.  A password and the flag that it must be
\* changed are the credential, apart from the rest of the user: no screen shows them.
UsersApi ==
  [list           |-> {"user", "role", "store", "userPermissionOverride"},
   byId           |-> {"user", "role", "store", "userPermissionOverride", "permission"},
   roles          |-> {"role"},
   permissions    |-> {"permission"},
   storeAccess    |-> {"userStoreAccess", "store"},
   create         |-> {"user"},
   provision      |-> {"user"},
   setActive      |-> {"user"},
   resetPassword  |-> {"credential"},
   updateRole     |-> {"user"},
   update         |-> {"user"},
   setOverride    |-> {"userPermissionOverride"},
   setStoreAccess |-> {"userStoreAccess"}]

AuthApi ==
  [me |-> {"user", "role", "store", "userPermissionOverride", "permission"},
   changePassword |-> {"credential"}]

TwoFactorApi == [setup |-> {"user"}, enable |-> {"user"}, disable |-> {"user"}]

NavApi == [list |-> {"userNavPreference"}, save |-> {"userNavPreference"}, reset |-> {"userNavPreference"}]

DashboardApi ==
  [catalog |-> {}, widgets |-> {"dashboardWidget"}, add |-> {"dashboardWidget"}, update |-> {"dashboardWidget"},
   remove |-> {"dashboardWidget"}, reorder |-> {"dashboardWidget"}]

\* Whatever a widget shows: the tables the registry's fetchers read between them.
WidgetApi == [data |-> {"dashboardWidget", "ticket", "ticketCategory", "asset", "sku", "store", "dvr", "ibt",
                       "onCallShift", "reminder"}]

AlertsApi == [list |-> {"alert"}, summary |-> {"alert"}, dismiss |-> {"alert"}, run |-> {"alert"}]

ActivityApi == [list |-> {"auditEvent", "user"}]

\* Two rows that no table holds: the checked-out version, and the log of its last update.
UpdatesApi == [status |-> {"version"}, log |-> {"updateLog"}, install |-> {"version", "updateLog"}]

SystemApi == [publicConfig |-> {}]

PricesApi == [lookup |-> {}]

IncidentsApi == [publicStatus |-> {"incident", "incidentUpdate"}]

=============================================================================

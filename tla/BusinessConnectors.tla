------------------------- MODULE BusinessConnectors -------------------------
(***************************************************************************)
(* Plans of the connectors for wikis, trackers, boards and code hosts, and *)
(* of those for directories, personnel, sales and service desks.           *)
(***************************************************************************)
EXTENDS ConnectorPlans

(* Airtable: the next cursor is the time before the first request, less an  *)
(* overlap.                                                                 *)
AirtableConnect == Probe({{"access_token", "base_id", "table"}}, Ignoring(Wraps429))
AirtableNamespaces == Configured
AirtableList == TokenPages
AirtableFetch == Strict(Wraps429)
AirtableDelta == Stamping(TimePages("before", "any"), "before")

(* Asana: workspaces, then every page of projects of each.                  *)
AsanaConnect == Probe({{"access_token"}}, Plain)
AsanaNamespaces == Expanding(FirstPage(Plain), Plain)
AsanaList == TokenPages
AsanaFetch == Strict(Plain)
AsanaDelta == TimePage("newestOrNone", "asc")

(* Bitbucket: pull requests by link.                                        *)
BitbucketConnect == Probe({{"username", "app_password", "workspace", "repo"}}, Ignoring(Wraps429))
BitbucketNamespaces == Configured
BitbucketList == Eager(TokenPages)
BitbucketFetch == Strict(Wraps429)
BitbucketDelta == TimePages("now", "asc")

(* BookStack: the pages of one listing request.                             *)
BookStackConnect == Probe({{"base_url", "token_id", "token_secret"}}, Ignoring(Wraps429))
BookStackNamespaces == Configured
BookStackList == Eager(OnlyFirstPage)
BookStackFetch == Strict(Wraps429)
BookStackDelta == TimePage("newest", "desc")

(* ClickUp: spaces, then the lists of each; tasks by page number.           *)
ClickUpConnect == Probe({{"api_key", "team_id"}}, Ignoring(Wraps429))
ClickUpSpaces == Wraps429
ClickUpLists == Wraps429
ClickUpNamespaces == Expanding(OneAnswer(ClickUpSpaces), ClickUpLists)
ClickUpList == OffsetPages("toldOrShort")
ClickUpFetch == Lenient(Wraps429)
ClickUpDelta == TimePage("newest", "any")

(* Coda: the delta walks newest first until a document it already knows.    *)
CodaConnect == Probe({{"access_token"}}, Ignoring(Wraps429))
CodaNamespaces == Configured
CodaList == TokenPages
CodaFetch == Lenient(Wraps429)
CodaDelta == TimePages("newest", "desc")

(* Confluence Cloud: the first page of spaces; an unordered delta page.     *)
ConfluenceConnect == Probe({{"email", "api_token", "site_url"}}, Ignoring(Plain))
ConfluenceNamespaces == FirstPage(Plain)
ConfluenceList == TokenPages
ConfluenceFetch == Careless(Plain)
ConfluenceDelta == Treating(TimePage("now", "any"), Plain)

(* Confluence Server: spaces and pages by offset, ended by a short page.    *)
ConfluenceServerConnect == Probe({{"base_url", "pat"}, {"base_url", "username", "password"}},
                                 Ignoring(Wraps429))
ConfluenceServerNamespaces == AllPages(Wraps429)
ConfluenceServerList == OffsetPages("short")
ConfluenceServerFetch == Lenient(Wraps429)
ConfluenceServerDelta == TimePage("newest", "asc")

(* GitHub: the first page of repositories; issues by page number.           *)
GitHubConnect == Probe({{"access_token"}}, Ignoring(Plain))
GitHubNamespaces == FirstPage(Plain)
GitHubList == OffsetPages("short")
GitHubFetch == Careless(Plain)
GitHubDelta == Treating(TimePage("now", "any"), Plain)

(* GitLab: the first page of projects; issues by page number.               *)
GitLabConnect == Probe({{"access_token"}}, Ignoring(Plain))
GitLabNamespaces == FirstPage(Plain)
GitLabList == OffsetPages("short")
GitLabFetch == Careless(Plain)
GitLabDelta == Treating(TimePage("now", "any"), Plain)

(* Jira: issues by offset up to the total; the newest delta page only.      *)
JiraConnect == Probe({{"email", "api_token", "site_url"}}, Ignoring(Plain))
JiraNamespaces == OneAnswer(Plain)
JiraList == OffsetPages("told")
JiraFetch == Careless(Plain)
JiraDelta == Treating(TimePage("now", "desc"), Plain)

(* Linear: query lets the errors of a 200 through; Connect, FetchDocument   *)
(* and DeltaSync notice them, the listings read an empty answer.            *)
LinearQuery == Takes({"soft"}, WrapsQuota)
LinearConnect == Probe({{"api_key"}}, Takes({}, LinearQuery))
LinearNamespaces == FirstPage(LinearQuery)
LinearList == Treating(TokenPages, LinearQuery)
LinearFetch == Strict(Takes({}, LinearQuery))
LinearDelta == Treating(TimePage("newestOrNone", "any"), Takes({}, LinearQuery))

(* Monday: gql fails on any error in a 200.                                 *)
MondayGql == WrapsQuota
MondayConnect == Probe({{"api_token"}}, MondayGql)
MondayNamespaces == FirstPage(MondayGql)
MondayList == Treating(TokenPages, MondayGql)
MondayFetch == Strict(MondayGql)
MondayDelta == Treating(TimePage("newest", "asc"), MondayGql)

(* Notion: pages older than the requested time are left out; the newest     *)
(* delta page only.                                                         *)
NotionConnect == Probe({{"access_token"}}, Ignoring(Plain))
NotionNamespaces == Configured
NotionList == Hiding(TokenPages)
NotionFetch == Careless(Plain)
NotionDelta == Treating(TimePage("now", "desc"), Plain)

(* Quip: newest first, the next page bounded by the oldest of the last one. *)
QuipConnect == Probe({{"access_token"}}, Ignoring(Wraps429))
QuipNamespaces == Configured
QuipList == Listing("token", "short")
QuipFetch == Strict(Wraps429)
QuipDelta == TimePages("now", "desc")

(* Trello: all cards of the board in one answer; one page of actions.       *)
TrelloConnect == Probe({{"api_key", "token", "board_id"}}, Ignoring(Wraps429))
TrelloNamespaces == Configured
TrelloList == Eager(OnlyFirstPage)
TrelloFetch == Strict(Wraps429)
TrelloDelta == Inclusive(TimePage("now", "any"))

WorkSetups ==
  {AirtableConnect, AsanaConnect, BitbucketConnect, BookStackConnect, ClickUpConnect, CodaConnect,
   ConfluenceConnect, ConfluenceServerConnect, GitHubConnect, GitLabConnect, JiraConnect,
   LinearConnect, MondayConnect, NotionConnect, QuipConnect, TrelloConnect}

WorkWalks ==
  {<<AirtableNamespaces, AirtableList>>, <<AsanaNamespaces, AsanaList>>,
   <<BitbucketNamespaces, BitbucketList>>, <<BookStackNamespaces, BookStackList>>,
   <<ClickUpNamespaces, ClickUpList>>, <<CodaNamespaces, CodaList>>,
   <<ConfluenceNamespaces, ConfluenceList>>, <<ConfluenceServerNamespaces, ConfluenceServerList>>,
   <<GitHubNamespaces, GitHubList>>, <<GitLabNamespaces, GitLabList>>,
   <<JiraNamespaces, JiraList>>, <<LinearNamespaces, LinearList>>,
   <<MondayNamespaces, MondayList>>, <<NotionNamespaces, NotionList>>,
   <<QuipNamespaces, QuipList>>, <<TrelloNamespaces, TrelloList>>}

WorkFetches ==
  {AirtableFetch, AsanaFetch, BitbucketFetch, BookStackFetch, ClickUpFetch, CodaFetch,
   ConfluenceFetch, ConfluenceServerFetch, GitHubFetch, GitLabFetch, JiraFetch, LinearFetch,
   MondayFetch, NotionFetch, QuipFetch, TrelloFetch}

WorkDeltas ==
  {AirtableDelta, AsanaDelta, BitbucketDelta, BookStackDelta, ClickUpDelta, CodaDelta,
   ConfluenceDelta, ConfluenceServerDelta, GitHubDelta, GitLabDelta, JiraDelta, LinearDelta,
   MondayDelta, NotionDelta, QuipDelta, TrelloDelta}

-----------------------------------------------------------------------------
(* BambooHR: one directory; the changes since a time in one answer, and the *)
(* time of the answer as the next cursor.                                   *)
BambooHRConnect == Probe({{"api_key", "subdomain"}}, Ignoring(WrapsBusy))
BambooHRNamespaces == Configured
BambooHRList == Treating(WholeAnswer, WrapsBusy)
BambooHRFetch == Lenient(WrapsBusy)
BambooHRDelta ==
  Treating(Stamping(Inclusive(TimePages("now", "any")), "now"), WrapsBusy)

(* Entra ID: users and groups; Graph's delta endpoint read to its end.      *)
EntraIDConnect == Probe({{"access_token"}}, Ignoring(Wraps429))
EntraIDNamespaces == Configured
EntraIDList == TokenPages
EntraIDFetch == Lenient(Wraps429)
EntraIDDelta == Capped(LogPages("head"))

(* Freshdesk and Freshservice: page numbers, ended by a short page or by    *)
(* the absence of a next link.                                              *)
FreshdeskConnect == Probe({{"domain", "api_key"}}, Ignoring(Wraps429))
FreshdeskNamespaces == Configured
FreshdeskList == Eager(OffsetPages("toldOrShort"))
FreshdeskFetch == Strict(Wraps429)
FreshdeskDelta == ByOffset(Inclusive(TimePages("now", "asc")))

FreshserviceConnect == Probe({{"domain", "api_key"}}, Ignoring(Wraps429))
FreshserviceNamespaces == Configured
FreshserviceList == OffsetPages("toldOrShort")
FreshserviceFetch == Strict(Wraps429)
FreshserviceDelta == ByOffset(Inclusive(TimePages("now", "asc")))

(* Google Workspace: users and groups; the time after the last page is the  *)
(* next cursor.                                                             *)
GoogleWorkspaceLimits == WrapsQuota
GoogleWorkspaceConnect == Probe({{"access_token"}}, Ignoring(GoogleWorkspaceLimits))
GoogleWorkspaceNamespaces == Configured
GoogleWorkspaceList == Treating(TokenPages, GoogleWorkspaceLimits)
GoogleWorkspaceFetch == Lenient(GoogleWorkspaceLimits)
GoogleWorkspaceDelta ==
  Treating(Capped(Stamping(Inclusive(TimePages("now", "any")), "now")), GoogleWorkspaceLimits)

(* HubSpot: the oldest hundred changes after the cursor.                    *)
HubSpotConnect == Probe({{"access_token"}}, Ignoring(Plain))
HubSpotNamespaces == Configured
HubSpotList == TokenPages
HubSpotFetch == Lenient(Plain)
HubSpotDelta == TimePage("newestOrNone", "asc")

(* Okta: an unordered page of the changes after the cursor.                 *)
OktaConnect == Probe({{"api_token", "org_url"}}, Ignoring(Wraps429))
OktaNamespaces == Configured
OktaList == TokenPages
OktaFetch == Lenient(Wraps429)
OktaDelta == TimePage("newest", "any")

(* PagerDuty: an account key has no user, so Connect has a second probe.    *)
PagerDutyConnect == ProbeAgain({{"api_key"}}, Ignoring(Wraps429))
PagerDutyNamespaces == Configured
PagerDutyList == OffsetPages("told")
PagerDutyFetch == Strict(Wraps429)
PagerDutyDelta == ByOffset(Inclusive(TimePages("now", "any")))

(* Personio: Connect trades the client's secret for a token.                *)
PersonioToken == Wraps429
PersonioConnect == Probe({{"client_id", "client_secret"}}, PersonioToken)
PersonioNamespaces == Configured
PersonioList == Hiding(OffsetPages("empty"))
PersonioFetch == Lenient(Wraps429)
PersonioDelta == Capped(ByOffset(Stamping(Inclusive(TimePages("now", "any")), "now")))

(* Pipedrive: the upstream names the next offset.                           *)
PipedriveConnect == Probe({{"api_token", "company_domain"}}, Ignoring(Wraps429))
PipedriveNamespaces == Configured
PipedriveList == OffsetPages("told")
PipedriveFetch == Lenient(Wraps429)
PipedriveDelta == Inclusive(TimePage("newest", "asc"))

(* Salesforce: query links; the oldest page of changes after the cursor.    *)
SalesforceConnect == Probe({{"instance_url", "access_token"}}, Ignoring(Plain))
SalesforceNamespaces == Configured
SalesforceList == TokenPages
SalesforceFetch == Lenient(Plain)
SalesforceDelta == TimePage("newestOrNone", "asc")

(* ServiceNow: offsets over a result the upstream sorts by time of change.  *)
ServiceNowConnect == Probe({{"instance", "access_token"}, {"instance", "username", "password"}},
                           Ignoring(Wraps429))
ServiceNowNamespaces == Configured
ServiceNowList == Eager(OffsetPages("short"))
ServiceNowFetch == Strict(Wraps429)
ServiceNowDelta == ByOffset(TimePages("now", "asc"))

(* Workday: offsets up to the total.                                        *)
WorkdayConnect == Probe({{"access_token", "tenant_url"}}, Ignoring(Wraps429))
WorkdayNamespaces == Configured
WorkdayList == OffsetPages("told")
WorkdayFetch == Lenient(Wraps429)
WorkdayDelta == Capped(ByOffset(Inclusive(TimePages("newest", "any"))))

(* Zendesk: next-page links; the incremental export.                        *)
ZendeskConnect == Probe({{"subdomain", "access_token"}, {"subdomain", "api_token", "email"}},
                        Ignoring(Wraps429))
ZendeskNamespaces == Configured
ZendeskList == Eager(TokenPages)
ZendeskFetch == Strict(Wraps429)
ZendeskDelta == Inclusive(TimePages("now", "asc"))

(* Zoho Desk: offsets, ended by a short page or by a 204.                   *)
ZohoDeskConnect == Probe({{"access_token", "org_id"}}, Ignoring(Wraps429))
ZohoDeskNamespaces == Configured
ZohoDeskList == OffsetPages("short")
ZohoDeskFetch == Strict(Wraps429)
ZohoDeskDelta == ByOffset(Inclusive(TimePages("now", "asc")))

BusinessSetups ==
  {BambooHRConnect, EntraIDConnect, FreshdeskConnect, FreshserviceConnect, GoogleWorkspaceConnect,
   HubSpotConnect, OktaConnect, PagerDutyConnect, PersonioConnect, PipedriveConnect,
   SalesforceConnect, ServiceNowConnect, WorkdayConnect, ZendeskConnect, ZohoDeskConnect}

BusinessWalks ==
  {<<BambooHRNamespaces, BambooHRList>>, <<EntraIDNamespaces, EntraIDList>>,
   <<FreshdeskNamespaces, FreshdeskList>>, <<FreshserviceNamespaces, FreshserviceList>>,
   <<GoogleWorkspaceNamespaces, GoogleWorkspaceList>>, <<HubSpotNamespaces, HubSpotList>>,
   <<OktaNamespaces, OktaList>>, <<PagerDutyNamespaces, PagerDutyList>>,
   <<PersonioNamespaces, PersonioList>>, <<PipedriveNamespaces, PipedriveList>>,
   <<SalesforceNamespaces, SalesforceList>>, <<ServiceNowNamespaces, ServiceNowList>>,
   <<WorkdayNamespaces, WorkdayList>>, <<ZendeskNamespaces, ZendeskList>>,
   <<ZohoDeskNamespaces, ZohoDeskList>>}

BusinessFetches ==
  {BambooHRFetch, EntraIDFetch, FreshdeskFetch, FreshserviceFetch, GoogleWorkspaceFetch,
   HubSpotFetch, OktaFetch, PagerDutyFetch, PersonioFetch, PipedriveFetch, SalesforceFetch,
   ServiceNowFetch, WorkdayFetch, ZendeskFetch, ZohoDeskFetch}

BusinessDeltas ==
  {BambooHRDelta, EntraIDDelta, FreshdeskDelta, FreshserviceDelta, GoogleWorkspaceDelta,
   HubSpotDelta, OktaDelta, PagerDutyDelta, PersonioDelta, PipedriveDelta, SalesforceDelta,
   ServiceNowDelta, WorkdayDelta, ZendeskDelta, ZohoDeskDelta}
=============================================================================

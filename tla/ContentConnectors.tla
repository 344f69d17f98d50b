------------------------- MODULE ContentConnectors --------------------------
(***************************************************************************)
(* Plans of the connectors for file stores, drives and web feeds, and of   *)
(* those for chat, meetings and mail.                                      *)
(***************************************************************************)
EXTENDS ConnectorPlans

(* Azure Blob: one listing request, and whatever follows its page is left.  *)
AzureBlobConnect == Probe({{"account", "container", "sas_token"},
                           {"account", "container", "shared_key"}}, Ignoring(Wraps429))
AzureBlobNamespaces == Configured
AzureBlobList == Eager(OnlyFirstPage)
AzureBlobFetch == Lenient(Wraps429)
AzureBlobDelta == TimePage("now", "any")

(* Box: folders share the pages with files and are left out; the metadata   *)
(* and the content of a file are two requests.                              *)
BoxConnect == Probe({{"access_token"}}, Ignoring(Plain))
BoxNamespaces == Configured
BoxList == Hiding(OffsetPages("told"))
BoxFetch == Streams(2, Plain)
BoxDelta == Treating(LogPage("head"), Plain)

(* Dropbox: folders and deletions share the pages with files.               *)
DropboxConnect == Probe({{"access_token"}}, Ignoring(Plain))
DropboxNamespaces == Configured
DropboxList == Hiding(TokenPages)
DropboxFetch == Streams(1, Plain)
DropboxDelta == Treating(LogPage("head"), Plain)

(* Egnyte: the folder is listed by a single request.                        *)
EgnyteConnect == Probe({{"access_token", "domain"}}, Ignoring(Wraps429))
EgnyteNamespaces == Configured
EgnyteList == Eager(OnlyFirstPage)
EgnyteFetch == Lenient(Wraps429)
EgnyteDelta == LogPage("head")

(* Google Cloud Storage: one listing request.                               *)
GcsConnect == Probe({{"access_token", "bucket"}}, Ignoring(Wraps429))
GcsNamespaces == Configured
GcsList == Eager(OnlyFirstPage)
GcsFetch == Lenient(Wraps429)
GcsDelta == TimePage("now", "any")

(* Google Drive: My Drive and every page of shared drives; change tokens.   *)
(* A second connector leaves My Drive out.                                  *)
GoogleDriveConnect == Probe({{"access_token"}}, Ignoring(Plain))
GoogleDriveNamespaces == AllPages(Wraps429)
SharedDrivesNamespaces == GoogleDriveNamespaces
GoogleDriveList == TokenPages
GoogleDriveFetch == Streams(2, Plain)
GoogleDriveDelta == LogPage("head")

(* OneDrive: Graph's delta endpoint, one page a call, from the beginning    *)
(* when there is no cursor.                                                 *)
OneDriveConnect == Probe({{"access_token"}}, Ignoring(Plain))
OneDriveNamespaces == Configured
OneDriveList == TokenPages
OneDriveFetch == Streams(2, Plain)
OneDriveDelta == Treating(LogPage("all"), Plain)

(* S3: both kinds of refusal S3 uses for "slow down"; the delta cursor is   *)
(* the last key, which an overwritten object does not pass again.           *)
S3ListObjects == WrapsBusy
S3Connect == Probe({{"access_key_id", "secret_access_key", "bucket"}}, Ignoring(Plain))
S3Namespaces == Configured
S3List == Treating(Hiding(TokenPages), S3ListObjects)
S3Fetch == Streams(1, Plain)
S3Delta == Treating(Delta("newestOrNone", "key", "asc", "one"), S3ListObjects)

(* SharePoint Online: the sites are one request's first page.               *)
SharePointConnect == Probe({{"access_token"}}, Ignoring(Plain))
SharePointNamespaces == FirstPage(Plain)
SharePointList == TokenPages
SharePointFetch == Streams(2, Plain)
SharePointDelta == Treating(LogPage("all"), Plain)

(* SharePoint Server: lists in one answer, the items of one in another.     *)
SharePointOnPremConnect == Probe({{"base_url", "app_password"},
                                  {"base_url", "username", "password"}}, Ignoring(Wraps429))
SharePointOnPremNamespaces == OneAnswer(Wraps429)
SharePointOnPremList == Eager(OnlyFirstPage)
SharePointOnPremFetch == Lenient(Wraps429)
SharePointOnPremDelta == TimePage("now", "any")

(* RSS and Atom: all feeds are read at the first Next.                      *)
RssEntries == Wraps429
RssConnect == NoProbe({{"feed_urls"}})
RssNamespaces == Configured
RssList == Treating(WholeAnswer, RssEntries)
RssFetch == Strict(RssEntries)
RssDelta == Treating(TimePages("newest", "any"), RssEntries)

(* Sitemaps: all sitemaps, nested ones included, are read at the first Next. *)
SitemapEntries == Wraps429
SitemapConnect == NoProbe({{"sitemap_urls"}})
SitemapNamespaces == Configured
SitemapList == Treating(WholeAnswer, SitemapEntries)
SitemapFetch == Lenient(Wraps429)
SitemapDelta == Treating(TimePages("newest", "any"), SitemapEntries)

(* The upload portal only receives: nothing to list, nothing to fetch.      *)
UploadPortalConnect == NoProbe({{"webhook_secret"}})
UploadPortalNamespaces == Configured
UploadPortalList == NothingListed
UploadPortalFetch == NoFetch

FileSetups ==
  {AzureBlobConnect, BoxConnect, DropboxConnect, EgnyteConnect, GcsConnect, GoogleDriveConnect,
   OneDriveConnect, S3Connect, SharePointConnect, SharePointOnPremConnect, RssConnect,
   SitemapConnect, UploadPortalConnect}

FileWalks ==
  {<<AzureBlobNamespaces, AzureBlobList>>, <<BoxNamespaces, BoxList>>,
   <<DropboxNamespaces, DropboxList>>, <<EgnyteNamespaces, EgnyteList>>,
   <<GcsNamespaces, GcsList>>, <<GoogleDriveNamespaces, GoogleDriveList>>,
   <<SharedDrivesNamespaces, GoogleDriveList>>,
   <<OneDriveNamespaces, OneDriveList>>, <<S3Namespaces, S3List>>,
   <<SharePointNamespaces, SharePointList>>, <<SharePointOnPremNamespaces, SharePointOnPremList>>,
   <<RssNamespaces, RssList>>, <<SitemapNamespaces, SitemapList>>,
   <<UploadPortalNamespaces, UploadPortalList>>}

FileFetches ==
  {AzureBlobFetch, BoxFetch, DropboxFetch, EgnyteFetch, GcsFetch, GoogleDriveFetch, OneDriveFetch,
   S3Fetch, SharePointFetch, SharePointOnPremFetch, RssFetch, SitemapFetch, UploadPortalFetch}

FileDeltas ==
  {AzureBlobDelta, BoxDelta, DropboxDelta, EgnyteDelta, GcsDelta, GoogleDriveDelta, OneDriveDelta,
   S3Delta, SharePointDelta, SharePointOnPremDelta, RssDelta, SitemapDelta}

-----------------------------------------------------------------------------
(* Discord: guilds page by page, then the channels of each; messages walk   *)
(* backwards by id until an empty page; the delta cursor is the largest id. *)
DiscordConnect == Probe({{"bot_token"}}, Plain)
DiscordNamespaces == Expanding(AllPages(Plain), Plain)
DiscordList == Listing("token", "empty")
DiscordFetch == Strict(Plain)
DiscordDelta == Delta("newestOrNone", "key", "any", "one")

(* Gmail: history records after an id, of which only the first page is read *)
(* while the new cursor is the mailbox's current id.                        *)
GmailConnect == Probe({{"access_token"}}, Ignoring(Wraps429))
GmailNamespaces == OneAnswer(Wraps429)
GmailList == TokenPages
GmailFetch == Lenient(Wraps429)
GmailDelta == Stamping(LogPage("head"), "head")

(* Intercom: conversations by search, articles newest first by page.        *)
IntercomConnect == Probe({{"access_token"}}, Ignoring(Wraps429))
IntercomNamespaces == Configured
IntercomList == Eager(TokenPages)
IntercomFetch == Lenient(Wraps429)
IntercomDeltaSearch == TimePage("now", "any")
IntercomDeltaArticles == ByOffset(TimePages("now", "desc"))

(* KChat: channels page by page; the delta endpoint decides what an absent  *)
(* cursor means.                                                            *)
KChatConnect == Probe({{"api_token"}}, Plain)
KChatNamespaces == AllPages(Plain)
KChatList == TokenPages
KChatFetch == Strict(Plain)
KChatDelta == LogPage("all")

(* Mattermost: channels of the user in one answer; posts by page number.    *)
MattermostConnect == Probe({{"access_token", "base_url"}}, Wraps429)
MattermostNamespaces == OneAnswer(Wraps429)
MattermostList == OffsetPages("short")
MattermostFetch == Lenient(Wraps429)
MattermostDelta == Inclusive(TimePage("newest", "any"))

(* Outlook: folders are one page; the delta endpoint is read to its end.    *)
OutlookConnect == Probe({{"access_token"}}, Ignoring(Wraps429))
OutlookNamespaces == FirstPage(Wraps429)
OutlookList == TokenPages
OutlookFetch == Lenient(Wraps429)
OutlookDelta == Capped(LogPages("head"))

(* Slack: a failure is a 200 whose ok flag is false.                        *)
SlackConnect == Probe({{"bot_token"}}, Plain)
SlackNamespaces == AllPages(Plain)
SlackList == Treating(TokenPages, WrapsQuota)
SlackFetch == Strict(Plain)

(* Teams: teams, then the channels of each without a look at the status of  *)
(* that second reply.                                                       *)
TeamsConnect == Probe({{"access_token"}}, Ignoring(Plain))
TeamsNamespaces == Expanding(FirstPage(Plain), Takes(Refusals \ {"garbled"}, Plain))
TeamsList == TokenPages
TeamsFetch == Careless(Plain)
TeamsDelta == Treating(LogPage("all"), Plain)

(* Webex: messages by link, newest first.                                   *)
WebexConnect == Probe({{"access_token", "room_id"}}, Ignoring(Wraps429))
WebexNamespaces == Configured
WebexList == Eager(TokenPages)
WebexFetch == Strict(Wraps429)
WebexDelta == TimePages("now", "desc")

ChatSetups ==
  {DiscordConnect, GmailConnect, IntercomConnect, KChatConnect, MattermostConnect, OutlookConnect,
   SlackConnect, TeamsConnect, WebexConnect}

ChatWalks ==
  {<<DiscordNamespaces, DiscordList>>, <<GmailNamespaces, GmailList>>,
   <<IntercomNamespaces, IntercomList>>, <<KChatNamespaces, KChatList>>,
   <<MattermostNamespaces, MattermostList>>, <<OutlookNamespaces, OutlookList>>,
   <<SlackNamespaces, SlackList>>, <<TeamsNamespaces, TeamsList>>, <<WebexNamespaces, WebexList>>}

ChatFetches ==
  {DiscordFetch, GmailFetch, IntercomFetch, KChatFetch, MattermostFetch, OutlookFetch, SlackFetch,
   TeamsFetch, WebexFetch}

ChatDeltas ==
  {DiscordDelta, GmailDelta, IntercomDeltaSearch, IntercomDeltaArticles, KChatDelta,
   MattermostDelta, OutlookDelta, TeamsDelta, WebexDelta}
=============================================================================

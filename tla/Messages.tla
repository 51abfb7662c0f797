------------------------------ MODULE Messages ------------------------------
(***************************************************************************)
(* The classes of internal/ipc/gen/ipc_generated.js, which the proto       *)
(* compiler writes, one per message of ipc.proto: create, encode, decode,  *)
(* verify, fromObject, toObject and their variants.  The functions of two  *)
(* classes differ only in their fields, so a class is the sequence of its  *)
(* fields in the order in which its constructor, verify and fromObject go  *)
(* through them; what the functions do with a field is in module Codec.    *)
(***************************************************************************)
EXTENDS Sequences

\* A field of a class: its property, its number on the wire, its type, and
\* whether it is a plain one, a member of the class's oneof, an array or a map
\* from strings to strings.
One(name, id, of) == [name |-> name, id |-> id, type |-> of, label |-> "one"]
Member(name, id, of) == [name |-> name, id |-> id, type |-> of, label |-> "member"]
Rep(name, id, of) == [name |-> name, id |-> id, type |-> of, label |-> "rep"]
Map(name, id) == [name |-> name, id |-> id, type |-> "string", label |-> "map"]

-----------------------------------------------------------------------------
\* Enums: names in the order of their numbers, from 0.

TagOperation == <<
    "TAG_OPERATION_UNSPECIFIED", "TAG_OPERATION_ADD", "TAG_OPERATION_REMOVE",
    "TAG_OPERATION_SET" >>
DaemonState == <<
    "DAEMON_STATE_UNSPECIFIED", "DAEMON_STATE_IDLE", "DAEMON_STATE_SCANNING",
    "DAEMON_STATE_READY", "DAEMON_STATE_DEGRADED" >>
ThumbnailSize == <<
    "THUMBNAIL_SIZE_UNSPECIFIED", "THUMBNAIL_SIZE_NORMAL", "THUMBNAIL_SIZE_LARGE" >>

Enums == [TagOperation |-> TagOperation, DaemonState |-> DaemonState,
          ThumbnailSize |-> ThumbnailSize]

-----------------------------------------------------------------------------
Envelope == <<
    One("requestId", 1, "uint64"), Member("request", 2, "Request"),
    Member("response", 3, "Response"), Member("event", 4, "Event") >>
Request == <<
    Member("search", 1, "SearchRequest"), Member("listTags", 8, "ListTagsRequest"),
    Member("hydrateTags", 9, "HydrateTagsRequest"),
    Member("related", 5, "RelatedRequest"),
    Member("globSearch", 12, "GlobSearchRequest"), Member("tag", 2, "TagRequest"),
    Member("metadata", 3, "MetadataRequest"),
    Member("metadataSet", 4, "MetadataSetRequest"),
    Member("status", 6, "StatusRequest"),
    Member("reloadRules", 7, "ReloadRulesRequest"),
    Member("listDirectory", 10, "ListDirectoryRequest"),
    Member("statFile", 11, "StatFileRequest"),
    Member("renameFile", 13, "RenameFileRequest"),
    Member("deleteFile", 14, "DeleteFileRequest"),
    Member("chmodFile", 15, "ChmodFileRequest"), Member("copy", 31, "CopyRequest"),
    Member("paste", 32, "PasteRequest"),
    Member("createFile", 33, "CreateFileRequest"),
    Member("createDirectory", 34, "CreateDirectoryRequest"),
    Member("listPlaces", 16, "ListPlacesRequest"),
    Member("pinPlace", 17, "PinPlaceRequest"),
    Member("unpinPlace", 18, "UnpinPlaceRequest"),
    Member("trashFile", 19, "TrashFileRequest"),
    Member("listTrash", 20, "ListTrashRequest"),
    Member("restoreTrash", 21, "RestoreTrashRequest"),
    Member("emptyTrash", 22, "EmptyTrashRequest"),
    Member("listAppsForFile", 23, "ListAppsForFileRequest"),
    Member("openWithApp", 24, "OpenWithAppRequest"),
    Member("getBrowserConfig", 25, "GetBrowserConfigRequest"),
    Member("launchGui", 29, "LaunchGUIRequest"),
    Member("getThumbnail", 30, "GetThumbnailRequest"),
    Member("listMounts", 35, "ListMountsRequest"),
    Member("getFileBadges", 26, "GetFileBadgesRequest"),
    Member("getFileActions", 27, "GetFileActionsRequest"),
    Member("runFileAction", 28, "RunFileActionRequest"),
    Member("pinSearch", 36, "PinSearchRequest"),
    Member("unpinSearch", 37, "UnpinSearchRequest"),
    Member("listSavedSearches", 38, "ListSavedSearchesRequest"),
    Member("shutdown", 39, "ShutdownRequest"),
    Member("reindexFile", 40, "ReindexFileRequest") >>
Response == <<
    Member("error", 1, "ErrorResponse"), Member("search", 2, "SearchResponse"),
    Member("listTags", 8, "ListTagsResponse"),
    Member("hydrateTags", 9, "HydrateTagsResponse"),
    Member("related", 5, "RelatedResponse"),
    Member("globSearch", 12, "GlobSearchResponse"),
    Member("tag", 3, "TagResponse"), Member("metadata", 4, "MetadataResponse"),
    Member("status", 6, "StatusResponse"),
    Member("reloadRules", 7, "ReloadRulesResponse"),
    Member("listDirectory", 10, "ListDirectoryResponse"),
    Member("statFile", 11, "StatFileResponse"),
    Member("renameFile", 13, "RenameFileResponse"),
    Member("deleteFile", 14, "DeleteFileResponse"),
    Member("chmodFile", 15, "ChmodFileResponse"),
    Member("copy", 31, "CopyResponse"), Member("paste", 32, "PasteResponse"),
    Member("createFile", 33, "CreateFileResponse"),
    Member("createDirectory", 34, "CreateDirectoryResponse"),
    Member("listPlaces", 16, "ListPlacesResponse"),
    Member("pinPlace", 17, "PinPlaceResponse"),
    Member("unpinPlace", 18, "UnpinPlaceResponse"),
    Member("trashFile", 19, "TrashFileResponse"),
    Member("listTrash", 20, "ListTrashResponse"),
    Member("restoreTrash", 21, "RestoreTrashResponse"),
    Member("emptyTrash", 22, "EmptyTrashResponse"),
    Member("listAppsForFile", 23, "ListAppsForFileResponse"),
    Member("openWithApp", 24, "OpenWithAppResponse"),
    Member("getBrowserConfig", 25, "GetBrowserConfigResponse"),
    Member("launchGui", 29, "LaunchGUIResponse"),
    Member("getThumbnail", 30, "GetThumbnailResponse"),
    Member("listMounts", 35, "ListMountsResponse"),
    Member("getFileBadges", 26, "GetFileBadgesResponse"),
    Member("getFileActions", 27, "GetFileActionsResponse"),
    Member("runFileAction", 28, "RunFileActionResponse"),
    Member("pinSearch", 36, "PinSearchResponse"),
    Member("unpinSearch", 37, "UnpinSearchResponse"),
    Member("listSavedSearches", 38, "ListSavedSearchesResponse"),
    Member("shutdown", 39, "ShutdownResponse"),
    Member("reindexFile", 40, "ReindexFileResponse") >>
Event == <<
    Member("fileTagged", 1, "FileTaggedEvent"),
    Member("indexUpdated", 2, "IndexUpdatedEvent"),
    Member("daemonStateChanged", 3, "DaemonStateChangedEvent"),
    Member("showWindow", 4, "ShowWindowEvent") >>
ErrorResponse == <<One("code", 1, "uint32"), One("message", 2, "string")>>
SearchRequest == <<
    Rep("tags", 1, "string"), One("tagsAny", 2, "bool"),
    Rep("tagExclude", 3, "string"), Map("metaFilters", 4),
    One("ftsQuery", 5, "string"), One("limit", 6, "uint32"),
    One("offset", 7, "uint32"), Rep("sortBy", 8, "string"),
    One("vectorQuery", 9, "string") >>
FileResult == <<
    One("path", 1, "string"), Rep("tags", 2, "string"), Map("metadata", 3),
    One("score", 4, "double"), One("mtime", 5, "int64"),
    One("sizeBytes", 6, "int64"), One("isLink", 7, "bool"),
    One("linkTarget", 8, "string") >>
SearchResponse == <<Rep("files", 1, "FileResult"), One("total", 2, "uint32")>>
TagRequest == <<
    Rep("paths", 1, "string"), Rep("tags", 2, "string"),
    One("operation", 3, "TagOperation") >>
TagResponse == <<
    Rep("pathsOk", 1, "string"), Rep("pathsError", 2, "string"), Map("errors", 3) >>
MetadataRequest == <<One("path", 1, "string")>>
MetadataResponse == <<
    One("path", 1, "string"), Map("metadata", 2), Map("sources", 3) >>
MetadataSetRequest == <<
    One("path", 1, "string"), One("key", 2, "string"), One("value", 3, "string") >>
RelatedRequest == <<
    One("seedPath", 1, "string"), One("limit", 2, "uint32"),
    One("maxHops", 3, "uint32"), One("hopWeight", 4, "float"),
    One("vecWeight", 5, "float") >>
ScoredFile == <<
    One("file", 1, "FileResult"), One("score", 2, "double"),
    One("hopDistance", 3, "uint32"), One("cosineSim", 4, "double") >>
RelatedResponse == <<Rep("files", 1, "ScoredFile")>>
StatusRequest == <<>>
StatusResponse == <<
    One("state", 1, "DaemonState"), One("filesIndexed", 2, "uint64"),
    One("tagsTotal", 3, "uint64"), One("indexSizeMb", 4, "float"),
    Rep("warnings", 5, "string"), One("uptimeSeconds", 6, "int64") >>
ShutdownRequest == <<>>
ShutdownResponse == <<>>
ReindexFileRequest == <<One("path", 1, "string")>>
ReindexFileResponse == <<>>
ReloadRulesRequest == <<>>
ReloadRulesResponse == <<
    One("rulesLoaded", 1, "uint32"), Rep("errors", 2, "string") >>
ListTagsRequest == <<One("prefix", 1, "string")>>
ListTagsResponse == <<Rep("tags", 1, "string")>>
HydrateTagsRequest == <<Rep("paths", 1, "string")>>
HydratedPathTags == <<One("path", 1, "string"), Rep("tags", 2, "string")>>
HydrateTagsResponse == <<Rep("entries", 1, "HydratedPathTags")>>
ListDirectoryRequest == <<One("path", 1, "string"), One("hidden", 2, "bool")>>
DirEntry == <<
    One("name", 1, "string"), One("path", 2, "string"), One("isDir", 3, "bool"),
    One("sizeBytes", 4, "int64"), One("mtime", 5, "int64"),
    One("mode", 6, "uint32"), One("hidden", 7, "bool"),
    One("mimeType", 8, "string"), One("iconName", 9, "string"),
    One("isLink", 10, "bool"), One("linkTarget", 11, "string") >>
ListDirectoryResponse == <<Rep("entries", 1, "DirEntry")>>
StatFileRequest == <<One("path", 1, "string")>>
FileStat == <<
    One("sizeBytes", 1, "int64"), One("mtime", 2, "int64"),
    One("mode", 3, "uint32") >>
StatFileResponse == <<One("stat", 1, "FileStat")>>
GlobSearchRequest == <<
    Rep("patterns", 1, "string"), One("limit", 2, "uint32"),
    One("allowHidden", 3, "bool") >>
GlobSearchResponse == <<Rep("files", 1, "FileResult")>>
RenameFileRequest == <<One("path", 1, "string"), One("newName", 2, "string")>>
RenameFileResponse == <<One("newPath", 1, "string")>>
DeleteFileRequest == <<One("path", 1, "string")>>
DeleteFileResponse == <<>>
ChmodFileRequest == <<One("path", 1, "string"), One("mode", 2, "uint32")>>
ChmodFileResponse == <<>>
ListPlacesRequest == <<>>
PlaceEntry == <<
    One("name", 1, "string"), One("path", 2, "string"), One("pinned", 3, "bool"),
    One("iconName", 4, "string") >>
ListPlacesResponse == <<Rep("places", 1, "PlaceEntry")>>
FileTaggedEvent == <<
    One("path", 1, "string"), Rep("added", 2, "string"),
    Rep("removed", 3, "string") >>
IndexUpdatedEvent == <<
    One("filesTotal", 1, "uint64"), One("tagsTotal", 2, "uint64") >>
DaemonStateChangedEvent == <<One("state", 1, "string")>>
PinPlaceRequest == <<
    One("name", 1, "string"), One("path", 2, "string"),
    One("iconName", 3, "string") >>
PinPlaceResponse == <<>>
UnpinPlaceRequest == <<One("path", 1, "string")>>
UnpinPlaceResponse == <<>>
TrashFileRequest == <<One("path", 1, "string")>>
TrashFileResponse == <<>>
ListTrashRequest == <<>>
TrashEntry == <<
    One("name", 1, "string"), One("originalPath", 2, "string"),
    One("deletionDate", 3, "int64"), One("sizeBytes", 4, "int64") >>
ListTrashResponse == <<Rep("entries", 1, "TrashEntry")>>
RestoreTrashRequest == <<One("trashName", 1, "string")>>
RestoreTrashResponse == <<>>
EmptyTrashRequest == <<>>
EmptyTrashResponse == <<>>
AppEntry == <<
    One("id", 1, "string"), One("name", 2, "string"), One("iconName", 3, "string") >>
ListAppsForFileRequest == <<One("path", 1, "string")>>
ListAppsForFileResponse == <<Rep("apps", 1, "AppEntry")>>
OpenWithAppRequest == <<One("path", 1, "string"), One("appId", 2, "string")>>
OpenWithAppResponse == <<>>
GetBrowserConfigRequest == <<>>
GetBrowserConfigResponse == <<
    Map("keybindings", 1), One("useTrash", 2, "bool"),
    One("inlineThumbnails", 3, "bool"), One("autoPropertiesSlideout", 4, "bool"),
    One("theme", 5, "string"), One("singleClick", 6, "bool") >>
GetFileBadgesRequest == <<One("path", 1, "string")>>
GetFileBadgesResponse == <<Rep("badges", 1, "string")>>
FileAction == <<One("id", 1, "string"), One("label", 2, "string")>>
GetFileActionsRequest == <<One("path", 1, "string")>>
GetFileActionsResponse == <<Rep("actions", 1, "FileAction")>>
RunFileActionRequest == <<One("path", 1, "string"), One("actionId", 2, "string")>>
RunFileActionResponse == <<>>
LaunchGUIRequest == <<One("path", 1, "string")>>
LaunchGUIResponse == <<One("alreadyRunning", 1, "bool")>>
ShowWindowEvent == <<One("path", 1, "string")>>
GetThumbnailRequest == <<One("path", 1, "string"), One("size", 2, "ThumbnailSize")>>
GetThumbnailResponse == <<
    One("thumbnailPath", 1, "string"), One("width", 2, "uint32"),
    One("height", 3, "uint32") >>
CopyRequest == <<Rep("paths", 1, "string"), One("isMove", 2, "bool")>>
CopyResponse == <<>>
PasteRequest == <<One("destinationDir", 1, "string")>>
PasteResponse == <<Rep("newPaths", 1, "string")>>
CreateFileRequest == <<
    One("destinationDir", 1, "string"), One("name", 2, "string") >>
CreateFileResponse == <<One("path", 1, "string")>>
CreateDirectoryRequest == <<
    One("destinationDir", 1, "string"), One("name", 2, "string") >>
CreateDirectoryResponse == <<One("path", 1, "string")>>
MountEntry == <<
    One("path", 1, "string"), One("label", 2, "string"),
    One("iconName", 3, "string") >>
ListMountsRequest == <<>>
ListMountsResponse == <<Rep("mounts", 1, "MountEntry")>>
SavedSearch == <<
    One("name", 1, "string"), Rep("chips", 2, "string"),
    One("iconName", 3, "string"), One("id", 4, "string") >>
PinSearchRequest == <<
    One("name", 1, "string"), Rep("chips", 2, "string"),
    One("iconName", 3, "string") >>
PinSearchResponse == <<One("search", 1, "SavedSearch")>>
UnpinSearchRequest == <<One("id", 1, "string")>>
UnpinSearchResponse == <<>>
ListSavedSearchesRequest == <<>>
ListSavedSearchesResponse == <<Rep("searches", 1, "SavedSearch")>>

-----------------------------------------------------------------------------
\* The classes by name: $root.tilbo.ipc.v1.
Schema == [
    Envelope |-> Envelope, Request |-> Request, Response |-> Response,
    Event |-> Event, ErrorResponse |-> ErrorResponse,
    SearchRequest |-> SearchRequest, FileResult |-> FileResult,
    SearchResponse |-> SearchResponse, TagRequest |-> TagRequest,
    TagResponse |-> TagResponse, MetadataRequest |-> MetadataRequest,
    MetadataResponse |-> MetadataResponse,
    MetadataSetRequest |-> MetadataSetRequest, RelatedRequest |-> RelatedRequest,
    ScoredFile |-> ScoredFile, RelatedResponse |-> RelatedResponse,
    StatusRequest |-> StatusRequest, StatusResponse |-> StatusResponse,
    ShutdownRequest |-> ShutdownRequest, ShutdownResponse |-> ShutdownResponse,
    ReindexFileRequest |-> ReindexFileRequest,
    ReindexFileResponse |-> ReindexFileResponse,
    ReloadRulesRequest |-> ReloadRulesRequest,
    ReloadRulesResponse |-> ReloadRulesResponse,
    ListTagsRequest |-> ListTagsRequest, ListTagsResponse |-> ListTagsResponse,
    HydrateTagsRequest |-> HydrateTagsRequest,
    HydratedPathTags |-> HydratedPathTags,
    HydrateTagsResponse |-> HydrateTagsResponse,
    ListDirectoryRequest |-> ListDirectoryRequest, DirEntry |-> DirEntry,
    ListDirectoryResponse |-> ListDirectoryResponse,
    StatFileRequest |-> StatFileRequest, FileStat |-> FileStat,
    StatFileResponse |-> StatFileResponse, GlobSearchRequest |-> GlobSearchRequest,
    GlobSearchResponse |-> GlobSearchResponse,
    RenameFileRequest |-> RenameFileRequest,
    RenameFileResponse |-> RenameFileResponse,
    DeleteFileRequest |-> DeleteFileRequest,
    DeleteFileResponse |-> DeleteFileResponse,
    ChmodFileRequest |-> ChmodFileRequest, ChmodFileResponse |-> ChmodFileResponse,
    ListPlacesRequest |-> ListPlacesRequest, PlaceEntry |-> PlaceEntry,
    ListPlacesResponse |-> ListPlacesResponse, FileTaggedEvent |-> FileTaggedEvent,
    IndexUpdatedEvent |-> IndexUpdatedEvent,
    DaemonStateChangedEvent |-> DaemonStateChangedEvent,
    PinPlaceRequest |-> PinPlaceRequest, PinPlaceResponse |-> PinPlaceResponse,
    UnpinPlaceRequest |-> UnpinPlaceRequest,
    UnpinPlaceResponse |-> UnpinPlaceResponse,
    TrashFileRequest |-> TrashFileRequest, TrashFileResponse |-> TrashFileResponse,
    ListTrashRequest |-> ListTrashRequest, TrashEntry |-> TrashEntry,
    ListTrashResponse |-> ListTrashResponse,
    RestoreTrashRequest |-> RestoreTrashRequest,
    RestoreTrashResponse |-> RestoreTrashResponse,
    EmptyTrashRequest |-> EmptyTrashRequest,
    EmptyTrashResponse |-> EmptyTrashResponse, AppEntry |-> AppEntry,
    ListAppsForFileRequest |-> ListAppsForFileRequest,
    ListAppsForFileResponse |-> ListAppsForFileResponse,
    OpenWithAppRequest |-> OpenWithAppRequest,
    OpenWithAppResponse |-> OpenWithAppResponse,
    GetBrowserConfigRequest |-> GetBrowserConfigRequest,
    GetBrowserConfigResponse |-> GetBrowserConfigResponse,
    GetFileBadgesRequest |-> GetFileBadgesRequest,
    GetFileBadgesResponse |-> GetFileBadgesResponse, FileAction |-> FileAction,
    GetFileActionsRequest |-> GetFileActionsRequest,
    GetFileActionsResponse |-> GetFileActionsResponse,
    RunFileActionRequest |-> RunFileActionRequest,
    RunFileActionResponse |-> RunFileActionResponse,
    LaunchGUIRequest |-> LaunchGUIRequest, LaunchGUIResponse |-> LaunchGUIResponse,
    ShowWindowEvent |-> ShowWindowEvent,
    GetThumbnailRequest |-> GetThumbnailRequest,
    GetThumbnailResponse |-> GetThumbnailResponse, CopyRequest |-> CopyRequest,
    CopyResponse |-> CopyResponse, PasteRequest |-> PasteRequest,
    PasteResponse |-> PasteResponse, CreateFileRequest |-> CreateFileRequest,
    CreateFileResponse |-> CreateFileResponse,
    CreateDirectoryRequest |-> CreateDirectoryRequest,
    CreateDirectoryResponse |-> CreateDirectoryResponse, MountEntry |-> MountEntry,
    ListMountsRequest |-> ListMountsRequest,
    ListMountsResponse |-> ListMountsResponse, SavedSearch |-> SavedSearch,
    PinSearchRequest |-> PinSearchRequest, PinSearchResponse |-> PinSearchResponse,
    UnpinSearchRequest |-> UnpinSearchRequest,
    UnpinSearchResponse |-> UnpinSearchResponse,
    ListSavedSearchesRequest |-> ListSavedSearchesRequest,
    ListSavedSearchesResponse |-> ListSavedSearchesResponse ]
=============================================================================

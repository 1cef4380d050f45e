---------------------------- MODULE RoomCatalog ----------------------------
(***************************************************************************)
(* Choosing songs on a room page (room-ui/src/stores/room.ts and the       *)
(* catalog's panel): answers of Navidrome that come in any order, one      *)
(* spinner and one busy flag for all of them, and requests for songs that  *)
(* name the library selected when they are sent.                           *)
(*                                                                         *)
(* Of a list only its library and its query are kept; one album and one    *)
(* artist stand for all of a library.  Which of its three lists a catalog  *)
(* shows is left to the listener, as the tabs do.                          *)
(***************************************************************************)
EXTENDS FiniteSets, Naturals

CONSTANTS
  Folders,     \* the room's music libraries the listener may use
  Queries,     \* texts to search for
  NoFolder,
  NoQuery,     \* an empty search field; also the catalog that is browsed
  NoRequest,
  MaxPending   \* bound on questions to Navidrome at a time

ASSUME CatalogAssumption ==
  /\ NoFolder \notin Folders /\ NoQuery \notin Queries
  /\ Folders # {} /\ MaxPending \in Nat

Texts == Queries \union {NoQuery}
Requests ==
  [kind : {"browse", "album", "artist"}, folder : Folders, query : {NoQuery}]
    \union [kind : {"search"}, folder : Folders, query : Queries]

ASSUME RequestAssumption == NoRequest \notin Requests

VARIABLES
  text,      \* catalogQuery, the search field
  folder,    \* folderID
  catalog,   \* [folder, query] of the lists last loaded
  mode,      \* catalogMode
  title,     \* the query catalogTitle names
  album,     \* library of selectedAlbum
  artist,    \* library of selectedArtist
  loading,   \* catalogLoading
  pending,   \* questions to Navidrome
  busy,
  single,    \* a request other than a whole album's is under way
  loops,     \* libraries whose album is being requested song by song
  latest,    \* history: the question asked last, while it is open
  misled,    \* history: the lists are not the answer to the last question
  guessed,   \* history: the title was made from an edited search field
  strayed,   \* history: a song was asked for from a misled list, or the
             \* library was switched while an album was being requested
  mistagged, \* history: a song was sent with a library that is not its own
  freed      \* history: another request ended while an album was requested

view == <<catalog, mode, title, album, artist>>
asked == <<loading, pending, latest, misled>>
queueing == <<busy, single, loops, freed>>
vars == <<text, folder, view, asked, queueing, guessed, strayed, mistagged>>

Init ==
  /\ text = NoQuery
  /\ folder \in Folders
  /\ \/ catalog = [folder |-> folder, query |-> NoQuery] /\ misled = FALSE
     \/ catalog = [folder |-> NoFolder, query |-> NoQuery] /\ misled = TRUE
  /\ mode = "browse" /\ title = NoQuery
  /\ album = NoFolder /\ artist = NoFolder
  /\ loading = FALSE /\ pending = {} /\ latest = NoRequest
  /\ busy = FALSE /\ single = FALSE /\ loops = {}
  /\ guessed = FALSE /\ strayed = FALSE /\ mistagged = FALSE /\ freed = FALSE

-----------------------------------------------------------------------------
(* Questions to Navidrome *)

Begin(kind, library, query) ==
  LET r == [kind |-> kind, folder |-> library, query |-> query] IN
  /\ pending' = pending \union {r} /\ Cardinality(pending') <= MaxPending
  /\ latest' = r
  /\ loading' = TRUE
  /\ UNCHANGED <<misled, view, queueing, guessed, mistagged>>

BrowseCatalog(library) == Begin("browse", library, NoQuery)

Type ==
  /\ text' \in Texts
  /\ UNCHANGED <<folder, view, asked, queueing, guessed, strayed, mistagged>>

\* An empty search browses.
SearchCatalog ==
  /\ IF text = NoQuery THEN BrowseCatalog(folder) ELSE Begin("search", folder, text)
  /\ UNCHANGED <<text, folder, strayed>>

ClearSearch ==
  /\ text' = NoQuery
  /\ BrowseCatalog(folder)
  /\ UNCHANGED <<folder, strayed>>

\* Fault: the other library is selected, its lists are left to the next search.
FolderOnlySelected ==
  /\ folder' \in Folders \ {folder}
  /\ strayed' = (strayed \/ loops # {})
  /\ UNCHANGED <<text, view, asked, queueing, guessed, mistagged>>

FolderChanged ==
  /\ folder' \in Folders \ {folder}
  /\ BrowseCatalog(folder')
  /\ strayed' = (strayed \/ loops # {})
  /\ UNCHANGED text

\* The lists are there while no spinner takes their place.
Albums == IF mode = "artist" THEN artist ELSE IF mode = "album" THEN NoFolder ELSE catalog.folder
Songs == IF mode = "artist" THEN NoFolder ELSE IF album # NoFolder THEN album ELSE catalog.folder

OpenAlbum ==
  /\ ~loading /\ Albums # NoFolder
  /\ Begin("album", Albums, NoQuery)
  /\ UNCHANGED <<text, folder, strayed>>

OpenArtist ==
  /\ ~loading /\ mode \in {"browse", "search"} /\ catalog.folder # NoFolder
  /\ Begin("artist", catalog.folder, NoQuery)
  /\ UNCHANGED <<text, folder, strayed>>

\* Back, or one of the tabs, which stay while the spinner turns: the title is
\* made anew, from what the search field holds now.
ReturnToCatalog ==
  /\ mode \in {"album", "artist"}
  /\ album' = NoFolder /\ artist' = NoFolder
  /\ mode' = IF text = NoQuery THEN "browse" ELSE "search"
  /\ title' = text
  /\ guessed' = (text # catalog.query)
  /\ latest' = IF latest \in Requests /\ latest.kind \in {"album", "artist"} THEN NoRequest ELSE latest
  /\ UNCHANGED <<text, folder, catalog, loading, pending, misled, queueing, strayed, mistagged>>

Settle(r) ==
  /\ r \in pending
  /\ pending' = pending \ {r}
  /\ latest' = IF r = latest THEN NoRequest ELSE latest
  /\ loading' = FALSE
  /\ UNCHANGED <<text, folder, queueing, strayed, mistagged>>

ListsAnswered(r) ==
  /\ r.kind \in {"browse", "search"}
  /\ Settle(r)
  /\ catalog' = [folder |-> r.folder, query |-> r.query]
  /\ mode' = r.kind /\ title' = r.query
  /\ album' = NoFolder /\ artist' = NoFolder
  /\ guessed' = FALSE
  /\ misled' = (r # latest)

\* Fault: the other kind of selection is kept.
DetailKeepsOther(r) ==
  /\ r.kind \in {"album", "artist"}
  /\ Settle(r)
  /\ mode' = r.kind
  /\ album' = IF r.kind = "album" THEN r.folder ELSE album
  /\ artist' = IF r.kind = "artist" THEN r.folder ELSE artist
  /\ misled' = (misled \/ r # latest)
  /\ UNCHANGED <<catalog, title, guessed>>

DetailAnswered(r) ==
  /\ r.kind \in {"album", "artist"}
  /\ Settle(r)
  /\ mode' = r.kind
  /\ album' = IF r.kind = "album" THEN r.folder ELSE NoFolder
  /\ artist' = IF r.kind = "artist" THEN r.folder ELSE NoFolder
  /\ misled' = (misled \/ r # latest)
  /\ UNCHANGED <<catalog, title, guessed>>

Failed(r) ==
  /\ Settle(r)
  /\ misled' = (misled \/ r # latest \/ r.kind \in {"browse", "search"})
  /\ UNCHANGED <<view, guessed>>

-----------------------------------------------------------------------------
(* Requests to the room *)

\* toTrack: the song goes out with the library selected now.
Sends(library) == mistagged' = (mistagged \/ library # folder)

\* Fault: the songs stay on the page while the spinner turns.
AddSongWhileLoading ==
  /\ ~busy /\ Songs # NoFolder
  /\ busy' = TRUE /\ single' = TRUE
  /\ strayed' = (strayed \/ misled)
  /\ Sends(Songs)
  /\ UNCHANGED <<text, folder, view, asked, loops, freed, guessed>>

AddSong ==
  /\ ~loading /\ ~busy /\ Songs # NoFolder
  /\ busy' = TRUE /\ single' = TRUE
  /\ strayed' = (strayed \/ misled)
  /\ Sends(Songs)
  /\ UNCHANGED <<text, folder, view, asked, loops, freed, guessed>>

\* A favourite, a song of a playlist, a seek or a skip: their buttons do not ask
\* whether the page is busy.
Unguarded ==
  /\ busy' = TRUE /\ single' = TRUE
  /\ UNCHANGED <<text, folder, view, asked, loops, freed, guessed, strayed, mistagged>>

SingleEnds ==
  /\ single
  /\ single' = FALSE /\ busy' = FALSE
  /\ freed' = (loops # {})
  /\ UNCHANGED <<text, folder, view, asked, loops, guessed, strayed, mistagged>>

\* Fault: addAlbum does not ask whether the page is busy.
AddAlbumAnyway ==
  /\ ~loading
  /\ \E library \in {album, Albums} \ (loops \union {NoFolder}) :
       loops' = loops \union {library}
  /\ busy' = TRUE
  /\ strayed' = (strayed \/ misled)
  /\ UNCHANGED <<text, folder, view, asked, single, freed, guessed, mistagged>>

\* The open album, or one of a list, which is fetched first.
AddAlbum ==
  /\ ~loading /\ ~busy
  /\ \E library \in {album, Albums} \ (loops \union {NoFolder}) :
       loops' = loops \union {library}
  /\ busy' = TRUE
  /\ strayed' = (strayed \/ misled)
  /\ UNCHANGED <<text, folder, view, asked, single, freed, guessed, mistagged>>

\* One song after the other, while the listener's quota lasts.
AddAlbumSong(library) ==
  /\ library \in loops
  /\ Sends(library)
  /\ UNCHANGED <<text, folder, view, asked, queueing, guessed, strayed>>

AddAlbumEnds(library) ==
  /\ library \in loops
  /\ loops' = loops \ {library}
  /\ busy' = FALSE
  /\ freed' = (loops' # {})
  /\ UNCHANGED <<text, folder, view, asked, single, guessed, strayed, mistagged>>

Next ==
  \/ Type \/ SearchCatalog \/ ClearSearch \/ FolderChanged
  \/ OpenAlbum \/ OpenArtist \/ ReturnToCatalog
  \/ \E r \in Requests : ListsAnswered(r) \/ DetailAnswered(r) \/ Failed(r)
  \/ AddSong \/ Unguarded \/ SingleEnds \/ AddAlbum
  \/ \E library \in Folders : AddAlbumSong(library) \/ AddAlbumEnds(library)

Spec == Init /\ [][Next]_vars

-----------------------------------------------------------------------------
(* Properties *)

TypeOK ==
  /\ text \in Texts /\ folder \in Folders
  /\ catalog \in [folder : Folders \union {NoFolder}, query : Texts]
  /\ mode \in {"browse", "search", "album", "artist"} /\ title \in Texts
  /\ album \in Folders \union {NoFolder} /\ artist \in Folders \union {NoFolder}
  /\ pending \subseteq Requests /\ latest \in pending \union {NoRequest}
  /\ loops \subseteq Folders
  /\ loading \in BOOLEAN /\ misled \in BOOLEAN /\ guessed \in BOOLEAN
  /\ busy \in BOOLEAN /\ single \in BOOLEAN /\ freed \in BOOLEAN
  /\ strayed \in BOOLEAN /\ mistagged \in BOOLEAN

\* Whatever order answers come in: an album or an artist is selected exactly in
\* its own view, a list's title names its query unless it was guessed, and no
\* spinner or busy flag stays when nothing is under way.
CatalogIsConsistent ==
  /\ mode = "album" <=> album # NoFolder
  /\ mode = "artist" <=> artist # NoFolder
  /\ mode \in {"browse", "search"} /\ ~guessed => title = catalog.query
  /\ loading => pending # {}
  /\ busy => single \/ loops # {}

\* Type correctness and the view's consistency.
CatalogInv == TypeOK /\ CatalogIsConsistent

\* Songs that can be clicked are of the selected library, unless an overtaken or
\* failed question took the spinner away or put its own lists there.
ListsAreOfTheLibrary ==
  ~loading /\ ~misled => Songs \in {folder, NoFolder} /\ Albums \in {folder, NoFolder}

\* A song of the catalog goes out with a library that is not its own only after
\* such a list, or a switch of the library while an album is being requested.
OnlyStraySongsAreMistagged == mistagged => strayed

\* Two albums are requested at a time only when a request that did not wait for
\* the first has ended, and with it the busy flag they share.
OneAlbumAtATime == Cardinality(loops) > 1 => freed

=============================================================================

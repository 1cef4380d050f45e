------------------------- MODULE RoomCatalog_proofs -------------------------
(***************************************************************************)
(* The catalog of a room page, for any libraries, any texts and any number *)
(* of open questions: what is shown is consistent and of the selected      *)
(* library, what is sent carries a song's own library, and albums are      *)
(* requested one at a time, with the exceptions the properties name.       *)
(***************************************************************************)
EXTENDS RoomCatalog, FiniteSetTheorems, TLAPS

AsksForLists == latest # NoRequest /\ latest.kind \in {"browse", "search"}
ListsFit ==
  /\ catalog.folder \in {folder, NoFolder}
  /\ album \in {folder, NoFolder} /\ artist \in {folder, NoFolder}

\* Why lists fit when no spinner hides them: until the answer to the last question
\* the spinner turns or the page is misled, and that question is about the
\* selected library.
LibraryInv ==
  /\ AsksForLists => latest.folder = folder
  /\ misled \/ AsksForLists \/ (ListsFit /\ (latest # NoRequest => latest.folder = folder))
  /\ misled \/ latest = NoRequest \/ loading

\* What is being requested is of the selected library.
QueueInv == strayed \/ (~mistagged /\ loops \subseteq {folder})

\* The busy flag guards the first album until another request's end clears it.
AlbumInv ==
  /\ loops # {} /\ ~freed => busy
  /\ OneAlbumAtATime

IInv == CatalogInv /\ LibraryInv /\ QueueInv /\ AlbumInv

-----------------------------------------------------------------------------

LEMMA RequestFields ==
  ASSUME NEW r \in Requests
  PROVE  /\ r # NoRequest
         /\ r.folder \in Folders /\ r.query \in Texts
         /\ r.kind \in {"browse", "search", "album", "artist"}
BY RequestAssumption DEF Requests, Texts

LEMMA InitCatalog == Init => IInv
<1> SUFFICES ASSUME Init PROVE IInv
  OBVIOUS
<1>1. CatalogInv
  <2>1. misled \in BOOLEAN
    BY DEF Init
  <2>2. catalog \in [folder : Folders \union {NoFolder}, query : Texts] /\ catalog.query = NoQuery
    BY DEF Init, Texts
  <2>3. QED
    BY <2>1, <2>2, CatalogAssumption DEF Init, CatalogInv, TypeOK, CatalogIsConsistent, Texts
<1>2. LibraryInv
  BY CatalogAssumption DEF Init, LibraryInv, AsksForLists, ListsFit
<1>3. QueueInv /\ AlbumInv
  BY FS_EmptySet DEF Init, QueueInv, AlbumInv, OneAlbumAtATime
<1>4. QED
  BY <1>1, <1>2, <1>3 DEF IInv

\* A question for lists of the library that is selected afterwards.
LEMMA ListQuestion ==
  ASSUME IInv, folder' \in Folders, text' \in Texts,
         strayed' \in BOOLEAN, strayed => strayed',
         folder' # folder => strayed' \/ loops = {},
         \/ BrowseCatalog(folder')
         \/ text # NoQuery /\ Begin("search", folder', text)
  PROVE  IInv'
<1>1. PICK kind \in {"browse", "search"}, query \in Texts :
        /\ Begin(kind, folder', query)
        /\ [kind |-> kind, folder |-> folder', query |-> query] \in Requests
  BY DEF BrowseCatalog, Requests, IInv, CatalogInv, TypeOK, Texts
<1>2. /\ latest' = [kind |-> kind, folder |-> folder', query |-> query]
      /\ latest' \in Requests /\ latest' # NoRequest
      /\ latest'.kind = kind /\ latest'.folder = folder'
      /\ latest' \in pending' /\ pending' \subseteq Requests
      /\ loading' = TRUE
      /\ UNCHANGED <<misled, view, queueing, guessed, mistagged>>
  BY <1>1, RequestAssumption DEF Begin, IInv, CatalogInv, TypeOK
<1>3. CatalogInv'
  BY <1>2 DEF IInv, CatalogInv, TypeOK, CatalogIsConsistent, view, queueing
<1>4. LibraryInv'
  BY <1>2 DEF LibraryInv, AsksForLists
<1>5. QueueInv' /\ AlbumInv'
  BY <1>2 DEF IInv, QueueInv, AlbumInv, OneAlbumAtATime, queueing
<1>6. QED
  BY <1>3, <1>4, <1>5 DEF IInv

LEMMA QuestionSteps ==
  ASSUME IInv, SearchCatalog \/ ClearSearch \/ FolderChanged
  PROVE  IInv'
<1>1. folder' \in Folders /\ text' \in Texts /\ (strayed => strayed')
  BY DEF IInv, CatalogInv, TypeOK, SearchCatalog, ClearSearch, FolderChanged, Texts
<1>a. strayed' \in BOOLEAN
  BY DEF IInv, CatalogInv, TypeOK, SearchCatalog, ClearSearch, FolderChanged
<1>2. folder' # folder => strayed' \/ loops = {}
  BY DEF SearchCatalog, ClearSearch, FolderChanged
<1>3. BrowseCatalog(folder') \/ (text # NoQuery /\ Begin("search", folder', text))
  BY DEF SearchCatalog, ClearSearch, FolderChanged
<1>4. QED
  BY <1>1, <1>a, <1>2, <1>3, ListQuestion

LEMMA DetailQuestion ==
  ASSUME IInv, NEW kind \in {"album", "artist"}, NEW library \in Folders,
         ~loading, library \in {catalog.folder, artist},
         Begin(kind, library, NoQuery), UNCHANGED <<text, folder, strayed>>
  PROVE  IInv'
<1>1. /\ latest' = [kind |-> kind, folder |-> library, query |-> NoQuery]
      /\ latest' \in Requests /\ latest' # NoRequest
      /\ latest'.kind = kind /\ latest'.folder = library
      /\ latest' \in pending' /\ pending' \subseteq Requests
      /\ loading' = TRUE
      /\ UNCHANGED <<misled, view, queueing, guessed, mistagged>>
  <2>1. [kind |-> kind, folder |-> library, query |-> NoQuery] \in Requests
    BY DEF Requests
  <2>2. QED
    BY <2>1, RequestAssumption DEF Begin, IInv, CatalogInv, TypeOK
<1>2. CatalogInv'
  BY <1>1 DEF IInv, CatalogInv, TypeOK, CatalogIsConsistent, view, queueing
<1>3. ~misled => ListsFit /\ library = folder
  BY CatalogAssumption DEF IInv, LibraryInv, AsksForLists, ListsFit
<1>4. LibraryInv'
  BY <1>1, <1>3 DEF LibraryInv, AsksForLists, ListsFit, view
<1>5. QueueInv' /\ AlbumInv'
  BY <1>1 DEF IInv, QueueInv, AlbumInv, OneAlbumAtATime, queueing
<1>6. QED
  BY <1>2, <1>4, <1>5 DEF IInv

LEMMA OpenSteps ==
  ASSUME IInv, OpenAlbum \/ OpenArtist
  PROVE  IInv'
<1>1. CASE OpenAlbum
  <2>1. Albums \in Folders /\ Albums \in {catalog.folder, artist}
    BY <1>1 DEF OpenAlbum, Albums, IInv, CatalogInv, TypeOK
  <2>2. QED
    BY <1>1, <2>1, DetailQuestion DEF OpenAlbum
<1>2. CASE OpenArtist
  <2>1. catalog.folder \in Folders
    BY <1>2 DEF OpenArtist, IInv, CatalogInv, TypeOK
  <2>2. QED
    BY <1>2, <2>1, DetailQuestion DEF OpenArtist
<1>3. QED
  BY <1>1, <1>2

\* Steps that leave the questions and the requests alone.
LEMMA TypeStep ==
  ASSUME IInv, Type
  PROVE  IInv'
<1>1. CatalogInv'
  BY DEF IInv, CatalogInv, TypeOK, CatalogIsConsistent, Type, view, asked, queueing, Texts
<1>2. LibraryInv' /\ QueueInv' /\ AlbumInv'
  BY DEF IInv, LibraryInv, AsksForLists, ListsFit, QueueInv, AlbumInv, OneAlbumAtATime,
         Type, view, asked, queueing
<1>3. QED
  BY <1>1, <1>2 DEF IInv

LEMMA ReturnStep ==
  ASSUME IInv, ReturnToCatalog
  PROVE  IInv'
<1>1. CatalogInv'
  <2>1. guessed' \in BOOLEAN /\ (~guessed' => text = catalog.query)
    BY DEF ReturnToCatalog
  <2>2. mode' \in {"browse", "search"} /\ album' = NoFolder /\ artist' = NoFolder
    BY DEF ReturnToCatalog
  <2>3. latest' \in pending \union {NoRequest}
    BY DEF ReturnToCatalog, IInv, CatalogInv, TypeOK
  <2>4. QED
    BY <2>1, <2>2, <2>3, CatalogAssumption
       DEF IInv, CatalogInv, TypeOK, CatalogIsConsistent, ReturnToCatalog, queueing
<1>2. latest' = latest \/ (latest' = NoRequest /\ ~AsksForLists)
  BY DEF ReturnToCatalog, AsksForLists
<1>3. LibraryInv'
  BY <1>2 DEF IInv, LibraryInv, AsksForLists, ListsFit, ReturnToCatalog
<1>4. QueueInv' /\ AlbumInv'
  BY DEF IInv, QueueInv, AlbumInv, OneAlbumAtATime, ReturnToCatalog, queueing
<1>5. QED
  BY <1>1, <1>3, <1>4 DEF IInv

-----------------------------------------------------------------------------
(* Answers *)

LEMMA SettleFacts ==
  ASSUME IInv, NEW r \in Requests, Settle(r)
  PROVE  /\ r \in pending /\ pending' \subseteq Requests
         /\ latest' \in pending' \union {NoRequest}
         /\ r = latest => latest' = NoRequest
         /\ r # latest => latest' = latest
         /\ loading' = FALSE
         /\ UNCHANGED <<text, folder, busy, single, loops, freed, strayed, mistagged>>
BY DEF Settle, IInv, CatalogInv, TypeOK, queueing

LEMMA ListsStep ==
  ASSUME IInv, NEW r \in Requests, ListsAnswered(r)
  PROVE  IInv'
<1>1. /\ pending' \subseteq Requests
      /\ latest' \in pending' \union {NoRequest}
      /\ r = latest => latest' = NoRequest
      /\ r # latest => latest' = latest
      /\ loading' = FALSE
      /\ UNCHANGED <<text, folder, busy, single, loops, freed, strayed, mistagged>>
  BY SettleFacts DEF ListsAnswered
<1>2. /\ r # NoRequest /\ r.folder \in Folders /\ r.query \in Texts
      /\ r.kind \in {"browse", "search"}
      /\ catalog'.folder = r.folder /\ catalog'.query = r.query
      /\ catalog' \in [folder : Folders \union {NoFolder}, query : Texts]
      /\ mode' = r.kind /\ title' = r.query /\ album' = NoFolder /\ artist' = NoFolder
      /\ guessed' = FALSE /\ misled' = (r # latest)
  BY RequestFields DEF ListsAnswered
<1>3. CatalogInv'
  <2>1. misled' \in BOOLEAN
    BY <1>2
  <2>2. QED
    BY <1>1, <1>2, <2>1, CatalogAssumption DEF IInv, CatalogInv, TypeOK, CatalogIsConsistent
<1>4. LibraryInv'
  <2>1. CASE r = latest
    <3>1. latest' = NoRequest /\ folder' = folder /\ r.folder = folder
      BY <1>1, <1>2, <2>1 DEF IInv, LibraryInv, AsksForLists
    <3>2. QED
      BY <1>2, <3>1 DEF LibraryInv, AsksForLists, ListsFit
  <2>2. CASE r # latest
    <3>1. misled' = TRUE
      BY <1>2, <2>2
    <3>2. QED
      BY <1>1, <2>2, <3>1 DEF IInv, LibraryInv, AsksForLists
  <2>3. QED
    BY <2>1, <2>2
<1>5. QueueInv' /\ AlbumInv'
  BY <1>1 DEF IInv, QueueInv, AlbumInv, OneAlbumAtATime
<1>6. QED
  BY <1>3, <1>4, <1>5 DEF IInv

LEMMA DetailStep ==
  ASSUME IInv, NEW r \in Requests, DetailAnswered(r)
  PROVE  IInv'
<1>1. /\ pending' \subseteq Requests
      /\ latest' \in pending' \union {NoRequest}
      /\ r = latest => latest' = NoRequest
      /\ r # latest => latest' = latest
      /\ loading' = FALSE
      /\ UNCHANGED <<text, folder, busy, single, loops, freed, strayed, mistagged>>
  BY SettleFacts DEF DetailAnswered
<1>2. /\ r # NoRequest /\ r.folder \in Folders
      /\ r.kind \in {"album", "artist"} /\ mode' = r.kind
      /\ album' = (IF r.kind = "album" THEN r.folder ELSE NoFolder)
      /\ artist' = (IF r.kind = "artist" THEN r.folder ELSE NoFolder)
      /\ misled' = (misled \/ r # latest)
      /\ UNCHANGED <<catalog, title, guessed>>
  BY RequestFields DEF DetailAnswered
<1>3. CatalogInv'
  <2>1. misled' \in BOOLEAN
    BY <1>2
  <2>2. QED
    BY <1>1, <1>2, <2>1, CatalogAssumption DEF IInv, CatalogInv, TypeOK, CatalogIsConsistent
<1>4. LibraryInv'
  BY <1>1, <1>2 DEF IInv, LibraryInv, AsksForLists, ListsFit
<1>5. QueueInv' /\ AlbumInv'
  BY <1>1 DEF IInv, QueueInv, AlbumInv, OneAlbumAtATime
<1>6. QED
  BY <1>3, <1>4, <1>5 DEF IInv

LEMMA FailedStep ==
  ASSUME IInv, NEW r \in Requests, Failed(r)
  PROVE  IInv'
<1>1. /\ pending' \subseteq Requests
      /\ latest' \in pending' \union {NoRequest}
      /\ r = latest => latest' = NoRequest
      /\ r # latest => latest' = latest
      /\ loading' = FALSE
      /\ UNCHANGED <<text, folder, busy, single, loops, freed, strayed, mistagged>>
  BY SettleFacts DEF Failed
<1>2. /\ r # NoRequest
      /\ misled' = (misled \/ r # latest \/ r.kind \in {"browse", "search"})
      /\ UNCHANGED <<catalog, mode, title, album, artist, guessed>>
  BY RequestFields DEF Failed, view
<1>3. CatalogInv'
  BY <1>1, <1>2 DEF IInv, CatalogInv, TypeOK, CatalogIsConsistent
<1>4. LibraryInv'
  BY <1>1, <1>2 DEF IInv, LibraryInv, AsksForLists, ListsFit
<1>5. QueueInv' /\ AlbumInv'
  BY <1>1 DEF IInv, QueueInv, AlbumInv, OneAlbumAtATime
<1>6. QED
  BY <1>3, <1>4, <1>5 DEF IInv

-----------------------------------------------------------------------------
(* Requests to the room *)

\* What can be clicked fits when the page is not misled.
LEMMA ClicksFit ==
  ASSUME IInv, ~loading, ~misled
  PROVE  /\ Songs \in {folder, NoFolder} /\ Albums \in {folder, NoFolder}
         /\ album \in {folder, NoFolder}
BY DEF IInv, LibraryInv, AsksForLists, ListsFit, Songs, Albums

\* Steps of requests leave the view and the questions alone.
LEMMA ViewUntouched ==
  ASSUME IInv, UNCHANGED <<text, folder, view, asked, guessed>>,
         busy' \in BOOLEAN, single' \in BOOLEAN, loops' \subseteq Folders, freed' \in BOOLEAN,
         strayed' \in BOOLEAN, mistagged' \in BOOLEAN, busy' => single' \/ loops' # {}
  PROVE  CatalogInv' /\ LibraryInv'
<1>1. CatalogInv'
  BY DEF IInv, CatalogInv, TypeOK, CatalogIsConsistent, view, asked
<1>2. LibraryInv'
  BY DEF IInv, LibraryInv, AsksForLists, ListsFit, view, asked
<1>3. QED
  BY <1>1, <1>2

LEMMA SingleSteps ==
  ASSUME IInv, AddSong \/ Unguarded \/ SingleEnds
  PROVE  IInv'
<1>1. CatalogInv' /\ LibraryInv'
  <2>1. UNCHANGED <<text, folder, view, asked, guessed, loops>>
    BY DEF AddSong, Unguarded, SingleEnds
  <2>2. /\ busy' \in BOOLEAN /\ single' \in BOOLEAN /\ freed' \in BOOLEAN
        /\ strayed' \in BOOLEAN /\ mistagged' \in BOOLEAN /\ (busy' => single')
    BY DEF AddSong, Unguarded, SingleEnds, Sends, IInv, CatalogInv, TypeOK
  <2>3. QED
    BY <2>1, <2>2, ViewUntouched DEF IInv, CatalogInv, TypeOK
<1>2. QueueInv'
  <2>1. CASE AddSong
    BY <2>1, ClicksFit DEF IInv, QueueInv, AddSong, Sends
  <2>2. CASE Unguarded \/ SingleEnds
    BY <2>2 DEF IInv, QueueInv, Unguarded, SingleEnds
  <2>3. QED
    BY <2>1, <2>2
<1>3. AlbumInv'
  <2>1. Cardinality(loops) > 1 => loops # {}
    BY FS_EmptySet
  <2>2. QED
    BY <2>1 DEF IInv, AlbumInv, OneAlbumAtATime, AddSong, Unguarded, SingleEnds
<1>4. QED
  BY <1>1, <1>2, <1>3 DEF IInv

LEMMA AddAlbumStep ==
  ASSUME IInv, AddAlbum
  PROVE  IInv'
<1>1. PICK library \in {album, Albums} \ (loops \union {NoFolder}) : loops' = loops \union {library}
  BY DEF AddAlbum
<1>2. library \in Folders
  BY DEF Albums, IInv, CatalogInv, TypeOK
<1>3. CatalogInv' /\ LibraryInv'
  <2>1. UNCHANGED <<text, folder, view, asked, guessed>> /\ busy' = TRUE
    BY DEF AddAlbum
  <2>2. /\ single' \in BOOLEAN /\ freed' \in BOOLEAN
        /\ strayed' \in BOOLEAN /\ mistagged' \in BOOLEAN /\ loops' \subseteq Folders
    BY <1>1, <1>2 DEF AddAlbum, IInv, CatalogInv, TypeOK
  <2>3. QED
    BY <1>1, <2>1, <2>2, ViewUntouched
<1>4. QueueInv'
  BY <1>1, ClicksFit DEF IInv, QueueInv, AddAlbum
<1>5. AlbumInv'
  <2>1. CASE loops = {}
    <3>1. loops' = {library}
      BY <1>1, <2>1
    <3>2. Cardinality(loops') = 1
      BY <3>1, FS_Singleton
    <3>3. QED
      BY <3>2 DEF AlbumInv, OneAlbumAtATime, AddAlbum
  <2>2. CASE loops # {}
    BY <2>2 DEF IInv, AlbumInv, OneAlbumAtATime, AddAlbum
  <2>3. QED
    BY <2>1, <2>2
<1>6. QED
  BY <1>3, <1>4, <1>5 DEF IInv

LEMMA AlbumSongStep ==
  ASSUME IInv, NEW library \in Folders, AddAlbumSong(library)
  PROVE  IInv'
<1>1. CatalogInv' /\ LibraryInv'
  <2>1. UNCHANGED <<text, folder, view, asked, guessed, busy, single, loops, freed, strayed>>
    BY DEF AddAlbumSong, queueing
  <2>2. mistagged' \in BOOLEAN
    BY DEF AddAlbumSong, Sends, IInv, CatalogInv, TypeOK
  <2>3. QED
    BY <2>1, <2>2, ViewUntouched DEF IInv, CatalogInv, TypeOK, CatalogIsConsistent
<1>2. QueueInv'
  BY DEF IInv, QueueInv, AddAlbumSong, Sends, queueing
<1>3. AlbumInv'
  BY DEF IInv, AlbumInv, OneAlbumAtATime, AddAlbumSong, queueing
<1>4. QED
  BY <1>1, <1>2, <1>3 DEF IInv

LEMMA AlbumEndsStep ==
  ASSUME IInv, NEW library \in Folders, AddAlbumEnds(library)
  PROVE  IInv'
<1>1. CatalogInv' /\ LibraryInv'
  <2>1. UNCHANGED <<text, folder, view, asked, guessed, single, strayed, mistagged>> /\ busy' = FALSE
    BY DEF AddAlbumEnds
  <2>2. loops' \subseteq Folders /\ freed' \in BOOLEAN
    BY DEF AddAlbumEnds, IInv, CatalogInv, TypeOK
  <2>3. QED
    BY <2>1, <2>2, ViewUntouched DEF IInv, CatalogInv, TypeOK
<1>2. QueueInv'
  BY DEF IInv, QueueInv, AddAlbumEnds
<1>3. AlbumInv'
  <2>1. Cardinality(loops') > 1 => loops' # {}
    BY FS_EmptySet
  <2>2. QED
    BY <2>1 DEF AlbumInv, OneAlbumAtATime, AddAlbumEnds
<1>4. QED
  BY <1>1, <1>2, <1>3 DEF IInv

-----------------------------------------------------------------------------

LEMMA StepCatalog == IInv /\ [Next]_vars => IInv'
<1> SUFFICES ASSUME IInv, [Next]_vars PROVE IInv'
  OBVIOUS
<1>1. CASE UNCHANGED vars
  BY <1>1 DEF IInv, CatalogInv, TypeOK, CatalogIsConsistent, LibraryInv, AsksForLists, ListsFit,
              QueueInv, AlbumInv, OneAlbumAtATime, vars, view, asked, queueing
<1>2. CASE SearchCatalog \/ ClearSearch \/ FolderChanged
  BY <1>2, QuestionSteps
<1>3. CASE OpenAlbum \/ OpenArtist
  BY <1>3, OpenSteps
<1>4. CASE Type \/ ReturnToCatalog
  BY <1>4, TypeStep, ReturnStep
<1>5. CASE \E r \in Requests : ListsAnswered(r) \/ DetailAnswered(r) \/ Failed(r)
  BY <1>5, ListsStep, DetailStep, FailedStep
<1>6. CASE AddSong \/ Unguarded \/ SingleEnds \/ AddAlbum
  BY <1>6, SingleSteps, AddAlbumStep
<1>7. CASE \E library \in Folders : AddAlbumSong(library) \/ AddAlbumEnds(library)
  BY <1>7, AlbumSongStep, AlbumEndsStep
<1>8. QED
  BY <1>1, <1>2, <1>3, <1>4, <1>5, <1>6, <1>7 DEF Next

LEMMA InvariantCatalog == Spec => []IInv
BY InitCatalog, StepCatalog, PTL DEF Spec

\* For all libraries and whatever order Navidrome answers in, the panel shows one
\* kind of view at a time under its own title, with no spinner or busy flag for
\* nothing (room.ts, browseCatalog to returnToCatalog).
THEOREM CatalogIsCoherent == Spec => []CatalogInv
<1>1. IInv => CatalogInv
  BY DEF IInv
<1>2. QED
  BY <1>1, InvariantCatalog, PTL

\* Songs and albums that can be clicked are of the selected library unless the
\* page was misled (room.ts, browseCatalog and openAlbum).
THEOREM ListsFitTheLibrary == Spec => []ListsAreOfTheLibrary
<1>1. IInv => ListsAreOfTheLibrary
  BY ClicksFit DEF ListsAreOfTheLibrary
<1>2. QED
  BY <1>1, InvariantCatalog, PTL

\* A song goes out with its own library unless it was requested from a misled page
\* or over a change of the library (room.ts, addSong and addAlbum).
THEOREM SongsKeepTheirLibrary == Spec => []OnlyStraySongsAreMistagged
<1>1. IInv => OnlyStraySongsAreMistagged
  BY DEF IInv, QueueInv, OnlyStraySongsAreMistagged
<1>2. QED
  BY <1>1, InvariantCatalog, PTL

\* Two albums are on their way at once only when another request's end cleared the
\* busy flag of the first (room.ts, addAlbum).
THEOREM AlbumsTakeTurns == Spec => []OneAlbumAtATime
<1>1. IInv => OneAlbumAtATime
  BY DEF IInv, AlbumInv
<1>2. QED
  BY <1>1, InvariantCatalog, PTL

=============================================================================

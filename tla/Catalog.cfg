SPECIFICATION Spec
CONSTANTS
  pop = pop
  jazz = jazz
  word = word
  Folders = {pop, jazz}
  Queries = {word}
  NoFolder = NoFolder
  NoQuery = NoQuery
  NoRequest = NoRequest
  MaxPending = 2
INVARIANTS CatalogInv ListsAreOfTheLibrary OnlyStraySongsAreMistagged OneAlbumAtATime

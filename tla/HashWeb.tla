------------------------------- MODULE HashWeb -------------------------------
(***************************************************************************)
(* The web of content-addressed blobs of the storage crate: a              *)
(* ModularHashSpace over a key-value store (async/mod.rs), the HashWeb of  *)
(* several hash spaces and the AddressResolver that follows link           *)
(* attributes from blob to blob (async/imp.rs, format/mod.rs,              *)
(* meta/mod.rs).                                                           *)
(*                                                                         *)
(* A text is the sequence of its parts between slashes: "/a/b" is          *)
(* <<"", "a", "b">>.  Base64 has a slash, so an encoded hash may have      *)
(* several parts.  A key-value store may be a file, a table or a           *)
(* distributed one: it may lose an entry or return something else, while   *)
(* resolutions are under way.  All errors of a resolution are one, a panic *)
(* is told apart.                                                          *)
(***************************************************************************)
EXTENDS Naturals, FiniteSets, SequencesExt

CONSTANTS
    Blobs,
    Spaces,       \* ids of the hash spaces of the web
    Default,      \* the space that HashWeb::store uses
    Words,        \* what there is between two slashes
    Base64,       \* text of each blob's hash
    Formats,      \* ids of the registered formats
    Attributes,   \* what the parser of each format reads from each blob
    Addresses,    \* addresses that are resolved
    Resolutions,  \* calls of resolve_blob
    MaxFaults,    \* bound: entries lost or altered
    Error

ASSUME HashWebAssumption ==
    /\ \A b, c \in Blobs : Base64[b] = Base64[c] => b = c
    /\ \A b \in Blobs : Base64[b] \in Seq(Words) /\ Base64[b] # <<>>
    /\ "" \in Words /\ Spaces \subseteq Words \ {""}
    /\ \A a \in Addresses :
          /\ a.link # Error
          /\ a.attrs # Error => a.attrs \in Seq(ToSet(a.attrs))
    /\ Error \notin Blobs
    /\ \A b \in Blobs : Error # [digest |-> b]
    /\ \A s \in Spaces, b \in Blobs : Error # [space |-> s, hash |-> Base64[b]]
    /\ MaxFaults \in Nat

VARIABLES
    store,    \* content of each space's key-value store
    links,    \* history: links that HashWeb::store returned, with their blobs
    hit,      \* history: entries lost or altered
    res       \* stage of each resolution, the link or blob it is at and the rest

webVars == <<store, links, hit, res>>

(* MultiHasher, MultiBaseHashCoder: no two of the blobs have one hash *)
Hash(blob) == [digest |-> blob]
Hashes == {Hash(b) : b \in Blobs}

Encode(hash) == Base64[hash.digest]

Decode(text) ==
    IF \E h \in Hashes : Encode(h) = text
    THEN CHOOSE h \in Hashes : Encode(h) = text
    ELSE Error

ValidHash(blob, hash) == Hash(blob) = hash

-----------------------------------------------------------------------------
(* HashWebLink *)

Link(space, text) == <<space>> \o text

Parse_AtLast(text) ==
    LET address == IF text # <<>> /\ text[1] = "" THEN Tail(text) ELSE text IN
    IF Len(address) < 2 THEN Error
    ELSE [space |-> address[1], hash |-> <<address[Len(address)]>>]

Parse(text) ==
    LET address == IF text # <<>> /\ text[1] = "" THEN Tail(text) ELSE text IN
    IF Len(address) < 2 THEN Error
    ELSE [space |-> address[1], hash |-> Tail(address)]

(* KeyValueStore::get *)
Get(space, hash) == store[space][hash]

(* ModularHashSpace::resolve *)
Checked_Trusting(blob, hash) == blob

Checked(blob, hash) == IF blob # Error /\ ValidHash(blob, hash) THEN blob ELSE Error

SpaceResolve(space, text) ==
    IF Decode(text) = Error THEN Error
    ELSE Checked(Get(space, Decode(text)), Decode(text))

(* HashWeb::resolve *)
Resolve(text) ==
    IF Parse(text) = Error \/ Parse(text).space \notin Spaces THEN Error
    ELSE SpaceResolve(Parse(text).space, Parse(text).hash)

(* HashWeb::validate *)
Validate(blob, text) ==
    /\ Parse(text) # Error /\ Parse(text).space \in Spaces
    /\ Decode(Parse(text).hash) # Error
    /\ ValidHash(blob, Decode(Parse(text).hash))

-----------------------------------------------------------------------------
(* Attributes of a blob: each has a name and a value. *)

Object(attrs) == [type |-> "object", attrs |-> attrs]
LinkValue(text) == [type |-> "link", link |-> text]
NoValue == [type |-> "none"]

FirstAttrvalByName(attrs, name) ==
    LET i == SelectInSeq(attrs, LAMBDA a : a.name = name)
    IN  IF i = 0 THEN NoValue ELSE attrs[i].value

(* Every step but the last must come to an object. *)
FirstAttrvalByPath(attrs, path) ==
    LET Step(value, name) ==
            IF value.type = "object" THEN FirstAttrvalByName(value.attrs, name) ELSE NoValue
    IN  IF path = <<>> THEN NoValue ELSE FoldLeft(Step, Object(attrs), path)

(* FormatRegistry::resolve_format, ::resolve_attr_link *)
ResolveFormat(format, blob) == IF format \in Formats THEN Attributes[format][blob] ELSE Error

ResolveAttrLink(blob, spec) ==
    LET attrs == ResolveFormat(spec.format, blob)
        value == FirstAttrvalByPath(attrs, spec.path)
    IN  IF attrs = Error THEN Error ELSE IF value.type = "link" THEN value.link ELSE Error

-----------------------------------------------------------------------------
NoResolution == [st |-> "new", address |-> Error, at |-> Error, rest |-> <<>>]

WebInit ==
    /\ store = [s \in Spaces |-> [h \in Hashes |-> Error]]
    /\ links = {}
    /\ hit = {}
    /\ res = [r \in Resolutions |-> NoResolution]

(* ModularHashSpace::store; HashWeb::store if it is the default space *)
Stored(space, blob) == [store EXCEPT ![space][Hash(blob)] = blob]

Store(space, blob) ==
    /\ store' = Stored(space, blob)
    /\ links' = IF space = Default
                THEN links \cup {<<Link(Default, Encode(Hash(blob))), blob>>} ELSE links
    /\ hit' = hit \ {<<space, Hash(blob)>>}
    /\ UNCHANGED res

(* The store loses an entry, or returns another blob for it. *)
Fault(space, hash, blob) ==
    /\ Cardinality(hit) < MaxFaults
    /\ store' = [store EXCEPT ![space][hash] = blob]
    /\ hit' = hit \cup {<<space, hash>>}
    /\ UNCHANGED <<links, res>>

(***************************************************************************)
(* AddressResolver::resolve_blob.  Whatever follows "#" is cut in pieces   *)
(* at once, and if nothing does the call panics.                           *)
(***************************************************************************)
HasAttributes(address) == address.attrs # Error

ResolveBlob(r, address) ==
    /\ res[r].st = "new"
    /\ res' = [res EXCEPT ![r] =
          IF HasAttributes(address)
          THEN [st |-> "link", address |-> address, at |-> address.link, rest |-> address.attrs]
          ELSE [st |-> "panicked", address |-> address, at |-> Error, rest |-> <<>>]]
    /\ UNCHANGED <<store, links, hit>>

Fetch(r) ==
    LET blob == Resolve(res[r].at) IN
    /\ res[r].st = "link"
    /\ res' = [res EXCEPT ![r] =
          [st |-> IF blob = Error THEN "failed"
                  ELSE IF res[r].rest = <<>> THEN "done" ELSE "blob",
           address |-> @.address, at |-> blob, rest |-> @.rest]]
    /\ UNCHANGED <<store, links, hit>>

(* A piece without "@" has no path to take off, which is a panic. *)
Follow(r) ==
    LET spec == Head(res[r].rest)
        link == ResolveAttrLink(res[r].at, spec)
    IN  /\ res[r].st = "blob"
        /\ res' = [res EXCEPT ![r] =
              [st |-> IF spec.path = Error THEN "panicked"
                      ELSE IF link = Error THEN "failed" ELSE "link",
               address |-> @.address, rest |-> Tail(@.rest),
               at |-> IF spec.path = Error THEN Error ELSE link]]
        /\ UNCHANGED <<store, links, hit>>

WebNext ==
    \/ \E s \in Spaces, b \in Blobs : Store(s, b)
    \/ \E s \in Spaces, h \in Hashes, b \in Blobs \cup {Error} : Fault(s, h, b)
    \/ \E r \in Resolutions, a \in Addresses : ResolveBlob(r, a)
    \/ \E r \in Resolutions : Fetch(r) \/ Follow(r)

WebSpec == WebInit /\ [][WebNext]_webVars

-----------------------------------------------------------------------------
(* Properties *)

(* The link by which an address comes to the j-th blob on its way *)
LinkTo(address, way, j) ==
    IF j = 1 THEN address.link ELSE ResolveAttrLink(way[j - 1], address.attrs[j - 1])

(* The blobs that the first n links of an address name, wherever they are kept *)
IsWay(address, way, n) ==
    /\ way \in [1..n -> Blobs]
    /\ \A j \in 1..n :
          LinkTo(address, way, j) # Error /\ Validate(way[j], LinkTo(address, way, j))

(* The blob that an address names: links followed with nothing in between *)
Names(address, blob) ==
    LET n == Len(address.attrs) + 1 IN
    \E way \in [1..n -> Blobs] : IsWay(address, way, n) /\ way[n] = blob

(***************************************************************************)
(* A resolution that succeeds returns the one blob that its address names, *)
(* whatever the stores of the spaces on its way lost, altered or were      *)
(* given between its steps: every blob is checked against the link it was  *)
(* reached by before its attributes are read.                              *)
(***************************************************************************)
ResolvedIsMeant ==
    \A r \in Resolutions : res[r].st = "done" => Names(res[r].address, res[r].at)

(***************************************************************************)
(* A link that HashWeb::store returned, with or without a leading slash,   *)
(* leads back to what was stored as long as the store keeps it: the text   *)
(* of a hash may have slashes, the first one still ends the space's id.    *)
(***************************************************************************)
StoredIsFound ==
    \A l \in links :
       \/ <<Default, Hash(l[2])>> \in hit
       \/ Resolve(l[1]) = l[2] /\ Resolve(<<"">> \o l[1]) = l[2]

-----------------------------------------------------------------------------
(* What the two invariants need to be inductive *)

WebTypeOK ==
    /\ store \in [Spaces -> [Hashes -> Blobs \cup {Error}]]
    /\ \A l \in links : \E b \in Blobs : l = <<Link(Default, Encode(Hash(b))), b>>
    /\ hit \subseteq Spaces \X Hashes
    /\ DOMAIN res = Resolutions

(* The entry behind a returned link *)
LinksKept ==
    \A l \in links :
       /\ Default \in Spaces
       /\ <<Default, Hash(l[2])>> \in hit \/ store[Default][Hash(l[2])] = l[2]

(* The pieces of its address that a resolution followed *)
Followed(r) == Len(res[r].address.attrs) - Len(res[r].rest)

(* What is left of the address are its last pieces. *)
RestIsLast(r) ==
    LET address == res[r].address  rest == res[r].rest IN
    /\ address \in Addresses /\ HasAttributes(address)
    /\ rest \in Seq(ToSet(address.attrs))
    /\ Followed(r) \in Nat
    /\ \A j \in 1..Len(rest) : rest[j] = address.attrs[Followed(r) + j]

(* The link or blob that a resolution is at lies on its address's way. *)
AtLink(r) ==
    \E way \in [1..Followed(r) -> Blobs] :
       /\ IsWay(res[r].address, way, Followed(r))
       /\ res[r].at = LinkTo(res[r].address, way, Followed(r) + 1)
       /\ res[r].at # Error

AtBlob(r) ==
    \E way \in [1..(Followed(r) + 1) -> Blobs] :
       IsWay(res[r].address, way, Followed(r) + 1) /\ res[r].at = way[Followed(r) + 1]

OnItsWay(r) ==
    /\ res[r].st \in {"link", "blob", "done"} => RestIsLast(r)
    /\ res[r].st = "link" => AtLink(r)
    /\ res[r].st = "blob" => AtBlob(r) /\ res[r].rest # <<>>
    /\ res[r].st = "done" => AtBlob(r) /\ res[r].rest = <<>>

WebInv == WebTypeOK /\ LinksKept /\ \A r \in Resolutions : OnItsWay(r)
=============================================================================

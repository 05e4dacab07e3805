----------------------------- MODULE Attachments -----------------------------
(***************************************************************************)
(* `wxeasy extract`: from the id of an image message to the picture.  The  *)
(* id names (chat, local_id, create_time); message_resource.db names the   *)
(* picture; its file lies in a month's directory, in up to three sizes and *)
(* one of three encodings; the key of the newest encoding is derived from  *)
(* what other files, WeChat's memory or its file names give away.  WeChat  *)
(* writes all of these, late and in any order, while the daemon reads.     *)
(*                                                                         *)
(* One chat.  A picture is its bytes <<picture, 1>>, <<picture, 2>>, ...;  *)
(* encrypted, each byte remembers with what.  A byte that was decrypted    *)
(* with the wrong key is Garbage.  How bytes are combined with keys is     *)
(* left out; where each part of a file begins and ends is not.             *)
(***************************************************************************)
EXTENDS Naturals, Sequences, FiniteSets, SequencesExt, FiniteSetsExt

CONSTANTS
  LocalIds,    \* local ids, used again and again within a chat
  MaxMonth,    \* create_time is 1..MaxMonth, in months
  Delays,      \* how many months late pictures are downloaded
  Picture,     \* pictures, named by their MD5
  Jpg,         \* those that end with the byte 0xD9
  Sizes,       \* of a picture's files, the preferred first: "_h", "", "_t"
  Bytes,       \* of a picture
  Block,       \* of AES: 16
  Layout,      \* <<aes_size, xor_size>> of a picture's files
  MinSamples,  \* derive_xor_key_from_v2_dat: 3
  MaxResources, MaxDats,  \* bounds: of messages and their rows; of .dat files
  NoPicture

ASSUME AttachmentsAssumption ==
  /\ Jpg \subseteq Picture /\ NoPicture \notin Picture
  /\ Bytes \in Nat \ {0} /\ Block \in Nat \ {0}
  /\ \A p \in Picture :
       Layout[p][1] \in Nat /\ Layout[p][2] \in Nat /\ Layout[p][1] + Layout[p][2] <= Bytes
  /\ MinSamples \in Nat \ {0} /\ MaxResources \in Nat /\ MaxDats \in Nat /\ MaxMonth \in Nat
  /\ Delays \subseteq Nat /\ IsFiniteSet(Delays) /\ Delays # {}

VARIABLES
  messages,   \* {<<local id, time, picture>>}: the image messages
  resources,  \* MessageResourceInfo in the order of rowid
  dats,       \* the chat's .dat files
  stage, asked, copy, path, dat,
  written     \* the picture written, to a file that was not there; no data: an error

pictureVars == <<messages, resources, dats, stage, asked, copy, path, dat, written>>

Encodings == {"v2", "v1", "xor"}
Garbage == <<NoPicture, 0>>
Pad(n) == <<NoPicture, n>>

PictureInit ==
  /\ messages = {} /\ resources = <<>> /\ dats = {}
  /\ stage = "idle" /\ asked = NoPicture /\ copy = <<>> /\ path = NoPicture /\ dat = <<>>
  /\ written = NoPicture

-----------------------------------------------------------------------------
(* WeChat.  What it does after the answer concerns the next request.       *)

Idle == stage # "done" /\ UNCHANGED <<stage, asked, copy, path, dat, written>>

\* No two messages agree in local id and time.
Send(m) ==
  /\ m \notin messages /\ \A n \in messages : <<n[1], n[2]>> # <<m[1], m[2]>>
  /\ Cardinality(messages) < MaxResources
  /\ messages' = messages \cup {m} /\ UNCHANGED <<resources, dats>> /\ Idle

\* The resource row of a message comes later, sometimes with a time that is no message's
\* (MaxTime + 1), sometimes a second time.
Index(m) ==
  /\ Len(resources) < MaxResources
  /\ \E t \in {m[2], MaxMonth + 1} :
       resources' = Append(resources, [lid |-> m[1], time |-> t, md5 |-> m[3]])
  /\ UNCHANGED <<messages, dats>> /\ Idle

\* A size of the picture is downloaded; the directory is that of the time it came in.
Download(m) ==
  /\ Cardinality(dats) < MaxDats
  /\ \E s \in ToSet(Sizes), e \in Encodings, delay \in Delays :
       dats' = dats \cup {[month |-> m[2] + delay, md5 |-> m[3], size |-> s, enc |-> e,
                             aes |-> Layout[m[3]][1], xor |-> Layout[m[3]][2]]}
  /\ UNCHANGED <<messages, resources>> /\ Idle

Clean(f) == dats' = dats \ {f} /\ UNCHANGED <<messages, resources>> /\ Idle

-----------------------------------------------------------------------------
(* What a file holds.                                                      *)

\* Mutant: no block of padding behind a whole number of blocks.
AlignedUp(n) == IF n % Block = 0 THEN n ELSE n + (Block - (n % Block))

\* PKCS7 pads always, a whole number of blocks with a block.
Aligned(n) == n + (Block - (n % Block))

Plain(p) == [i \in 1..Bytes |-> <<p, i>>]

\* WeChat's encoder: the file's three parts behind the header.  The padding says
\* how long it is.
Body(f) ==
  LET pad == Block - (f.aes % Block) IN
  [i \in 1..f.aes |-> [by |-> "aes", byte |-> <<f.md5, i>>]]
  \o [i \in 1..pad |-> [by |-> "aes", byte |-> Pad(pad)]]
  \o [i \in 1..Bytes - f.aes - f.xor |-> [by |-> "none", byte |-> <<f.md5, f.aes + i>>]]
  \o [i \in 1..f.xor |-> [by |-> "xor", byte |-> <<f.md5, Bytes - f.xor + i>>]]

Decrypted(cell, by, right) == IF cell.by = by /\ right THEN cell.byte ELSE Garbage

\* aes_ecb_decrypt_pkcs7: how much of s is padding by its last byte, 0 if that is no
\* padding.
Padding(s) ==
  LET n == s[Len(s)][2]
      last == {i \in 1..Len(s) : Len(s) - n < i}
  IN IF n \in 1..Block /\ n <= Len(s) /\ \A i \in last : s[i] = Pad(n) THEN n ELSE 0

\* v2::decode: <<>> where the lengths of the header do not fit the file, or the
\* padding is none.
Parts(f, body, key) ==
  LET aesEnd == Aligned(f.aes)
      rawEnd == Len(body) - f.xor
      aes == [i \in 1..aesEnd |-> Decrypted(body[i], "aes", key.aes)]
  IN IF aesEnd > Len(body) \/ f.xor > Len(body) \/ aesEnd > rawEnd \/ Padding(aes) = 0 THEN <<>>
     ELSE SubSeq(aes, 1, aesEnd - Padding(aes))
          \o [i \in 1..rawEnd - aesEnd |-> Decrypted(body[aesEnd + i], "none", TRUE)]
          \o [i \in 1..f.xor |-> Decrypted(body[rawEnd + i], "xor", key.xor)]

\* v1_xor::decode: a picture's first bytes are known and tell the key.
ToldByHead(f) == Plain(f.md5)

\* decoder::dispatch by the first bytes.  Without a key V2 is refused, V1 has an AES key
\* of its own but not the other.
NoKey == [aes |-> FALSE, xor |-> FALSE]
WholeKey == [aes |-> TRUE, xor |-> TRUE]
Decode(f, body, key) ==
  CASE f.enc = "xor" -> ToldByHead(f)
    [] f.enc = "v1"  -> Parts(f, body, [aes |-> TRUE, xor |-> key.xor])
    [] f.enc = "v2"  -> IF key.aes THEN Parts(f, body, key) ELSE <<>>

-----------------------------------------------------------------------------
(* The key of V2.                                                          *)

V2Files == {f \in dats : f.enc = "v2"}

\* derive_xor_key_from_v2_dat: a vote of the files, as if every one was a JPEG, whose
\* last byte is known; too few do not vote.  The others' votes agree or scatter.
RightVotes == Cardinality({f \in V2Files : f.md5 \in Jpg /\ f.xor > 0})
WrongVotes == Cardinality(V2Files) - RightVotes
Voted(default) ==
  IF Cardinality(V2Files) < MinSamples THEN {default}
  ELSE {right \in BOOLEAN : IF right THEN RightVotes > 0
                            ELSE WrongVotes > 0 /\ WrongVotes >= RightVotes}

\* What there is besides: the code in a file name and the suffix of the account's
\* directory (macOS), the key in WeChat's memory and whether 0x88 is right (Windows).
Hints == [platform : {"macos", "windows", "linux"}, code : BOOLEAN, suffix : BOOLEAN,
          memory : BOOLEAN, default : BOOLEAN]

\* derive_key_for_paths: AES keys are checked against files of the account.  On macOS
\* the code gives both keys; else 2^24 numbers that end in the voted byte are tried, none
\* of which fits when the byte is wrong.
MacKey(h) ==
  IF h.code THEN {WholeKey}
  ELSE {IF h.suffix /\ right THEN WholeKey ELSE NoKey : right \in Voted(FALSE)}

\* On Windows the memory gives the one, the vote or 0x88 the other.
WindowsKey(h) ==
  IF h.memory THEN {[aes |-> TRUE, xor |-> right] : right \in Voted(h.default)} ELSE {NoKey}

KeyMaterial(h) ==
  CASE V2Files = {} \/ h.platform = "linux" -> {NoKey}
    [] V2Files # {} /\ h.platform = "macos" -> MacKey(h)
    [] V2Files # {} /\ h.platform = "windows" -> WindowsKey(h)

-----------------------------------------------------------------------------
(* q_extract.                                                              *)

\* Mutant: the time is left out of the search.
LookupById(m) ==
  LET same == {i \in 1..Len(copy) : copy[i].lid = m[1]}
  IN IF same = {} THEN NoPicture ELSE copy[CHOOSE i \in same : \A j \in same : i >= j].md5

\* lookup_md5_blocking: the last row of this time, else a newest one of the local id.
Lookup(m) ==
  LET same == {i \in 1..Len(copy) : copy[i].lid = m[1]}
      exact == {i \in same : copy[i].time = m[2]}
      newest == {i \in same : \A j \in same : copy[j].time <= copy[i].time}
  IN IF exact # {} THEN copy[CHOOSE i \in exact : \A j \in exact : i >= j].md5
     ELSE IF same = {} THEN NoPicture ELSE copy[CHOOSE i \in newest : TRUE].md5

\* pick_best_in_img_dir
BestIn(month, md5) ==
  LET there == {f \in dats : f.month = month /\ f.md5 = md5}
      best == SelectInSeq(Sizes, LAMBDA s : \E f \in there : f.size = s)
  IN {f \in there : best # 0 /\ f.size = Sizes[best]}

\* three_month_candidates, then every month in order.
MonthsFor(m) ==
  <<m[2] - 1, m[2], m[2] + 1>> \o [i \in 1..MaxMonth + Max(Delays) |-> i]

\* find_dat_file
Find(m, md5) ==
  LET at == SelectInSeq(MonthsFor(m), LAMBDA k : BestIn(k, md5) # {})
  IN IF at = 0 THEN {} ELSE BestIn(MonthsFor(m)[at], md5)

\* The row of the message itself is there.
OwnRow == \E i \in 1..Len(copy) : copy[i].lid = asked[1] /\ copy[i].time = asked[2]

World == UNCHANGED <<messages, resources, dats>>

\* The id, as the list of attachments gave it.
Ask(m) ==
  /\ stage = "idle" /\ stage' = "fetch" /\ asked' = m
  /\ World /\ UNCHANGED <<copy, path, dat, written>>

\* The decrypted copy of message_resource.db.
Fetch ==
  /\ stage = "fetch" /\ copy' = resources /\ stage' = "find"
  /\ World /\ UNCHANGED <<asked, path, dat, written>>

Over == stage' = "done" /\ asked' = NoPicture /\ copy' = <<>> /\ path' = NoPicture /\ dat' = <<>>
Fail == Over /\ UNCHANGED written

\* resolve_blocking
Locate ==
  /\ stage = "find" /\ World
  /\ \/ /\ Find(asked, Lookup(asked)) = {} /\ Fail
     \/ \E f \in Find(asked, Lookup(asked)) :
          path' = f /\ stage' = "read" /\ UNCHANGED <<asked, copy, dat, written>>

Read ==
  /\ stage = "read" /\ World
  /\ \/ /\ path \in dats
        /\ dat' = Body(path) /\ stage' = "write" /\ UNCHANGED <<asked, copy, path, written>>
     \/ path \notin dats /\ Fail

\* The key, the decoding and the file written.
Write ==
  /\ stage = "write" /\ World
  /\ \E k \in UNION {{<<h.platform, key>> : key \in KeyMaterial(h)} : h \in Hints} :
       written' = [of |-> asked, own |-> OwnRow, platform |-> k[1], key |-> k[2],
               enc |-> path.enc, data |-> Decode(path, dat, k[2])]
  /\ Over

PictureNext ==
  \/ \E m \in LocalIds \X (1..MaxMonth) \X Picture : Send(m)
  \/ \E m \in messages : Index(m) \/ Download(m) \/ Ask(m)
  \/ \E f \in dats : Clean(f)
  \/ Fetch \/ Locate \/ Read \/ Write

PictureSpec == PictureInit /\ [][PictureNext]_pictureVars

-----------------------------------------------------------------------------
\* A file that is there is decoded unless it needs a key that is not known; what is
\* written is the message's own picture, whatever other messages used its local id, in
\* whichever month, size and encoding its file lies; every byte of it, when the key of
\* the tail was told or voted right, and up to the tail otherwise.  On macOS a V2 picture
\* is whole or there is none: a wrong vote finds no key.  (Without the message's own row
\* in message_resource.db, another one's of the same local id is taken.)
ExtractedIsOwn ==
  written # NoPicture =>
    /\ written.data = <<>> <=> written.enc = "v2" /\ ~written.key.aes
    /\ written.own /\ written.data # <<>> =>
         /\ Len(written.data) = Bytes
         /\ \A i \in 1..Bytes :
              \/ written.data[i] = Plain(written.of[3])[i]
              \/ ~written.key.xor /\ written.enc # "xor" /\ written.data[i] = Garbage
    /\ written.platform = "macos" /\ written.enc = "v2" => Garbage \notin ToSet(written.data)
=============================================================================

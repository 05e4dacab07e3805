------------------------------ MODULE Directory ------------------------------
(***************************************************************************)
(* src/daemon/query.rs: what a query makes of the contacts: the kind of a  *)
(* chat, the chat a user's words mean, the lists of contacts and groups,   *)
(* and the names shown for the members of a group.  The daemon keeps the   *)
(* contacts in memory (Names); the group's members, with the nicknames in  *)
(* chat_room.ext_buffer, are read from contact.db at each request.         *)
(*                                                                         *)
(* A Text is a username or a name; what the code asks of its letters is    *)
(* given by the constants.                                                 *)
(***************************************************************************)
EXTENDS Integers, FiniteSets, Sequences

CONSTANTS
    Text, NoText,
    Prefix,      \* Text -> "room", "fold", "gh", "at", "wxid" or "plain"
    Lower,       \* Text -> its lower-case form
    Length,      \* Text -> its length
    Rank,        \* Text -> its place in the order of strings
    Within,      \* the <<s, t>> of which the lower-case s is a part of the lower-case t
    IdLike,      \* the texts that pass for a username by their letters
    Users,       \* usernames of contacts
    Shown,       \* display names of contacts
    Cards, Noise,\* nicknames in a group; other strings of a member's record
    MaxContacts, MaxChunks

ASSUME DirectoryAssumption ==
    /\ Users \cup Shown \cup Cards \cup Noise \subseteq Text /\ NoText \notin Text
    /\ Lower \in [Text -> Text] /\ \A t \in Text : <<Lower[t], Lower[t]>> \in Within
    /\ Length \in [Text -> Nat] /\ Rank \in [Text -> Nat]
    /\ \A s, t \in Text : Rank[s] = Rank[t] => s = t
    /\ MaxContacts \in Nat /\ MaxChunks \in Nat
    \* WeChat's usernames have the form looks_like_username knows; the other strings
    \* of a record are nobody's username, and a nickname is a nickname by its letters.
    /\ \A u \in Users : Prefix[u] # "plain" \/ u \in IdLike
    /\ (Cards \cup Noise) \cap Users = {}
    /\ \A c \in Cards : Prefix[c] = "plain" /\ Length[c] <= 64

VARIABLES
    contacts,    \* username -> display name
    verified,    \* the usernames whose verify_flag is not 0
    ext          \* a group's ext_buffer: one chunk of <<field, text>> per member
contactVars == <<contacts, verified, ext>>

ContactsInit ==
    /\ contacts = [u \in {} |-> NoText] /\ verified = {}
    /\ ext = <<>>

\* WeChat stores a contact.
AddContact(u, d) ==
    /\ u \notin DOMAIN contacts /\ Cardinality(DOMAIN contacts) < MaxContacts
    /\ contacts' = [v \in DOMAIN contacts \cup {u} |-> IF v = u THEN d ELSE contacts[v]]
    /\ verified' \in {verified, verified \cup {u}}
    /\ UNCHANGED ext

\* The fields of a member's chunk; the username is in field 1 or in field 4.
Chunk(u, f, c, n) ==
    (IF f = 1 THEN <<<<1, u>>>> ELSE <<>>) \o <<<<2, c>>>>
      \o (IF n = NoText THEN <<>> ELSE <<<<3, n>>>>) \o (IF f = 4 THEN <<<<4, u>>>> ELSE <<>>)

\* The members of the group: all contacts that are no group themselves.
Members == {u \in DOMAIN contacts : Prefix[u] # "room"}

\* A member of the group takes a nickname: another chunk of the ext_buffer.
AddCard(u, f, c, n) ==
    /\ u \in Members /\ Len(ext) < MaxChunks
    /\ ext' = Append(ext, Chunk(u, f, c, n))
    /\ UNCHANGED <<contacts, verified>>

ContactsNext ==
    \/ \E u \in Users, d \in Shown : AddContact(u, d)
    \/ \E u \in Users, f \in {1, 4}, c \in Cards, n \in Noise \cup {NoText} : AddCard(u, f, c, n)

ContactsSpec == ContactsInit /\ [][ContactsNext]_contactVars
-----------------------------------------------------------------------------
Display(u) == IF u \in DOMAIN contacts THEN contacts[u] ELSE u

\* The order of the tests matters: a verified account may have any username.
ChatType(u) ==
    CASE Prefix[u] = "room" -> "group"
      [] Prefix[u] = "fold" -> "folded"
      [] u \in verified \/ Prefix[u] \in {"gh", "at"} -> "official_account"
      [] OTHER -> "private"

First(S, Better(_, _)) == CHOOSE u \in S : \A v \in S \ {u} : Better(u, v)

Earlier(u, v) == Rank[u] < Rank[v]
Closer(u, v) ==
    \/ Length[contacts[u]] < Length[contacts[v]]
    \/ Length[contacts[u]] = Length[contacts[v]] /\ Earlier(u, v)

Exact(q) == {u \in DOMAIN contacts : Lower[contacts[u]] = Lower[q]}
Fuzzy(q) == {u \in DOMAIN contacts : <<Lower[q], Lower[contacts[u]]>> \in Within}

\* Mutant of Resolve: the part that is found is as good as the whole name.
ResolveFuzzy(q) ==
    IF q \in DOMAIN contacts \/ Prefix[q] \in {"room", "wxid"} THEN q
    ELSE IF Fuzzy(q) # {} THEN First(Fuzzy(q), Earlier)
    ELSE NoText

Resolve(q) ==
    IF q \in DOMAIN contacts \/ Prefix[q] \in {"room", "wxid"} THEN q
    ELSE IF Exact(q) # {} THEN First(Exact(q), Earlier)
    ELSE IF Fuzzy(q) # {} THEN First(Fuzzy(q), Closer)
    ELSE NoText

\* q_contacts: those of one kind whose name or username has the query in it.
Listed(kind, q) ==
    {u \in DOMAIN contacts :
       /\ ChatType(u) = kind
       /\ \/ <<Lower[q], Lower[contacts[u]]>> \in Within
          \/ <<Lower[q], Lower[u]>> \in Within}
Groups(q) == Listed("group", q)

-----------------------------------------------------------------------------
\* is_strong_username_hint, looks_like_username
Strong(t) == Prefix[t] # "plain"
LooksLike(t) == Strong(t) \/ t \in IdLike

\* The first of the chunk's strings that is in S, None if none is.
FirstText(chunk, S) ==
    LET hits == {i \in 1..Len(chunk) : chunk[i] \in S}
    IN  IF hits = {} THEN NoText ELSE chunk[CHOOSE i \in hits : \A j \in hits : i <= j][2]

Field == 1..4
Or(a, b) == IF a # NoText THEN a ELSE b

\* pick_member_username: with a list of members, the first string that is one.
MemberOf(chunk, targets) ==
    LET strong == {t \in Text : Strong(t)}
        alike == {t \in Text : LooksLike(t)}
    IN  IF targets # {} THEN FirstText(chunk, Field \X targets)
        ELSE Or(FirstText(chunk, {1} \X alike), Or(FirstText(chunk, {4} \X alike),
             Or(FirstText(chunk, Field \X strong), FirstText(chunk, Field \X alike))))

\* pick_group_nickname: the string with the best score, the first of equals.
Brevity(t) == IF Length[t] < 32 THEN 32 - Length[t] ELSE 0
\* Mutant of Score: the number of the field does not count.
ScoreNoField(s) == (IF LooksLike(s[2]) THEN 0 ELSE 20) + Brevity(s[2])
Score(s) == (IF s[1] = 2 THEN 100 ELSE 0) + (IF LooksLike(s[2]) THEN 0 ELSE 20) + Brevity(s[2])
Nickname(chunk, u) ==
    LET eligible == {i \in 1..Len(chunk) :
                       chunk[i][2] # u /\ ~Strong(chunk[i][2]) /\ Length[chunk[i][2]] <= 64}
        Beats(i, j) == \/ Score(chunk[i]) > Score(chunk[j])
                       \/ Score(chunk[i]) = Score(chunk[j]) /\ i < j
    IN  IF eligible = {} THEN NoText ELSE chunk[First(eligible, Beats)][2]

\* parse_group_nickname_map: the first chunk of a member that gives a nickname counts.
Sooner(i, j) == i < j
NamedIn(targets, u) ==
    {i \in 1..Len(ext) : MemberOf(ext[i], targets) = u /\ Nickname(ext[i], u) # NoText}
Nicknames(targets) ==
    [u \in {t \in Text : NamedIn(targets, t) # {}} |->
        Nickname(ext[First(NamedIn(targets, u), Sooner)], u)]

\* load_group_member_username_set: the group's members; no set where an old
\* database lacks the table.
Targets(known) == IF known THEN Members ELSE {}

\* sender_display: nickname, name of the contact, name in the session, username.
\* Mutant of SenderDisplay: the contact's name before the nickname.
SenderNameFirst(u, fallback, nick) ==
    IF u \in DOMAIN contacts THEN contacts[u] ELSE IF u \in DOMAIN nick THEN nick[u] ELSE Or(fallback, u)
SenderDisplay(u, fallback, nick) ==
    IF u \in DOMAIN nick THEN nick[u] ELSE IF u \in DOMAIN contacts THEN contacts[u] ELSE Or(fallback, u)

\* sender_label: the sender by Name2Id (None: the group itself, or unknown), or
\* else the one the content begins with.
SenderLabel(byId, inContent, known) ==
    LET u == Or(byId, inContent)
    IN  IF u = NoText THEN NoText ELSE SenderDisplay(u, NoText, Nicknames(Targets(known)))

\* q_members from contact.db: the name shown for each member.
MemberShown(u) ==
    LET nick == Nicknames(Targets(TRUE)) IN IF u \in DOMAIN nick THEN nick[u] ELSE contacts[u]

-----------------------------------------------------------------------------
\* A name a list shows can be asked for: it means a contact of that very name,
\* never one that merely contains it (names that are usernames, or look like
\* one, mean that username), and whatever chat words mean is among those that
\* the list of its kind shows for the same words (query.rs:1161, 858, 936).
ShownResolves ==
    /\ \A u \in DOMAIN contacts :
         contacts[u] \notin DOMAIN contacts /\ Prefix[contacts[u]] \notin {"room", "wxid"} =>
           LET r == Resolve(contacts[u]) IN r # NoText /\ Lower[contacts[r]] = Lower[contacts[u]]
    /\ \A q \in Text :
         LET u == Resolve(q)
         IN  u \in DOMAIN contacts =>
               u \in IF ChatType(u) = "group" THEN Groups(q) ELSE Listed(ChatType(u), q)

\* Whether the list of members is known or not, and wherever the username is in
\* its record, a member's nickname is that of its own first record, whatever
\* other strings are in it.  (query.rs:7469, 7487 test one record each.)
NicknamesBelong ==
    \A known \in BOOLEAN, i \in 1..Len(ext) :
      LET Own(j) == FirstText(ext[j], {1, 4} \X Text)
          nick == Nicknames(Targets(known))
      IN  (\A j \in 1..i-1 : Own(j) # Own(i)) =>
            /\ Own(i) \in DOMAIN nick
            /\ nick[Own(i)] = FirstText(ext[i], {2} \X Text)

\* The list of members and the messages show the same name for a member, however
\* the sender of the message is found and whether or not the database has the
\* list of members.
NamedAlike ==
    \A u \in Members, known \in BOOLEAN :
      /\ SenderLabel(u, NoText, known) = MemberShown(u)
      /\ SenderLabel(NoText, u, known) = MemberShown(u)
=============================================================================

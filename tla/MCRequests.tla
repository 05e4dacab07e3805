----------------------------- MODULE MCRequests -----------------------------
(***************************************************************************)
(* Requests, for TLC: that they are answered with names, which names these *)
(* are, which pictures, and which rows a list shows or counts.  The        *)
(* modules share no state; setting says which of them moves:               *)
(*   races     two terminals start, ask and stop a daemon at once, past    *)
(*             every deadline, cut off anywhere                            *)
(*   contacts  Directory: contacts whose names contain each other, or look *)
(*             like usernames, and a group with nicknames                  *)
(*   pictures  Attachments: two pictures of one local id, in both orders   *)
(*   lists     Listings: every store of up to MaxRows rows; Milli stands   *)
(*             for 1000, MilliFrom for 9_999_999_999, MaxScan for 2000     *)
(* Process ids are interchangeable, and so are terminals.                  *)
(***************************************************************************)
EXTENDS DaemonLifecycle, Directory, Attachments, Listings, TLC

VARIABLE setting

(* Directory *)
Texts == {"wxid_a", "zhang88", "gh_x", "g@chatroom", "Ann", "ann", "anna", "boss", "xx", "cand77"}
PrefixOf == [t \in Texts |->
  CASE t = "wxid_a" -> "wxid" [] t = "gh_x" -> "gh" [] t = "g@chatroom" -> "room"
    [] OTHER -> "plain"]
LowerCase == [t \in Texts |-> IF t = "Ann" THEN "ann" ELSE t]
Lengths == [t \in Texts |->
  CASE t \in {"Ann", "ann"} -> 3 [] t \in {"anna", "boss", "gh_x"} -> 4
    [] t = "xx" -> 2 [] t \in {"wxid_a", "cand77"} -> 6 [] t = "zhang88" -> 7
    [] t = "g@chatroom" -> 10]
Ranks == [t \in Texts |->
  CASE t = "Ann" -> 1 [] t = "anna" -> 3 [] t = "ann" -> 2 [] t = "boss" -> 4
    [] t = "cand77" -> 5 [] t = "g@chatroom" -> 6 [] t = "gh_x" -> 7
    [] t = "wxid_a" -> 8 [] t = "xx" -> 9 [] t = "zhang88" -> 10]
Containing == {<<t, t>> : t \in Texts} \cup {<<"ann", "anna">>}

(* Attachments *)
SizesOf == <<"_h", "_t">>
LayoutOf == [p \in Picture |-> IF p \in Jpg THEN <<1, 1>> ELSE <<2, 1>>]

-----------------------------------------------------------------------------
MCInit ==
  /\ setting \in {"races", "contacts", "pictures", "lists"}
  /\ Init /\ ContactsInit /\ PictureInit
  /\ ListInit
  /\ setting # "lists" => kind = "sessions"

MCNext ==
  /\ UNCHANGED setting
  /\ \/ setting = "races" /\ Next /\ UNCHANGED <<contactVars, pictureVars, listVars>>
     \/ setting = "contacts" /\ ContactsNext /\ UNCHANGED <<vars, pictureVars, listVars>>
     \/ setting = "pictures" /\ PictureNext /\ UNCHANGED <<vars, contactVars, listVars>>
     \/ setting = "lists" /\ ListNext /\ UNCHANGED <<vars, contactVars, pictureVars>>

MCSpec == MCInit /\ [][MCNext]_<<setting, vars, contactVars, pictureVars, listVars>>

Symmetry == Permutations(Cli) \cup Permutations(Daemon)
=============================================================================

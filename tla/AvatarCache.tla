----------------------------- MODULE AvatarCache -----------------------------
(***************************************************************************)
(* The picture of one user: src/runtime/avatar-cache.ts over Cache         *)
(* Storage, and resolveAvatarModel of src/runtime/avatar-model.ts.         *)
(*                                                                         *)
(* A picture is the remote URL it was fetched from.  An object URL is a    *)
(* number; Asked callers run lookupCachedAvatar or ensureUserAvatarCached  *)
(* and are parted by their awaits.                                         *)
(* Names ending in _Slip are deliberate errors nothing uses: see README.   *)
(***************************************************************************)
EXTENDS Naturals, FiniteSets

CONSTANTS
    Asked,          \* the callers
    MaxUrls,        \* bound: remote URLs the user goes through
    MaxHandles      \* bound: object URLs made

ASSUME AvatarAssumption == {MaxUrls, MaxHandles} \subseteq Nat \ {0}

VARIABLES
    remote,     \* the remote URL of now
    entry,      \* Cache Storage: the source of its entry, 0 for none
    memo,       \* the memo: a source and a handle, 0 for none
    made,       \* object URLs made so far, and the source each shows
    dead,       \* the object URLs that were revoked
    asked,      \* the callers: where they are, what they want, what they got
    showing     \* what the UI shows: a copy, its freshness and for which URL

avatarVars == <<remote, entry, memo, made, dead, asked, showing>>

Urls    == 0..MaxUrls
Handles == 0..MaxHandles
NoCopy  == [src |-> 0, obj |-> 0]
Waiting == [at |-> "idle", url |-> 0, got |-> NoCopy, blob |-> 0]

AvatarTypeOK ==
    /\ remote \in Urls /\ entry \in Urls
    /\ memo \in [src : Urls, obj : Handles]
    /\ made.n \in Handles /\ dead \subseteq 1..made.n
    /\ asked \in [Asked -> [at : {"idle", "match", "read", "fetch", "put"}, url : Urls,
                            got : [src : Urls, obj : Handles], blob : Urls]]
    /\ showing.fresh \in {"fresh_local", "stale_local", "remote_only", "fallback"}

AvatarInit ==
    /\ remote \in {0, 1} /\ entry \in {0, 1}
    /\ memo = NoCopy
    /\ made = [n |-> 0, of |-> [h \in 1..MaxHandles |-> 0]] /\ dead = {}
    /\ asked = [c \in Asked |-> Waiting]
    /\ showing = [copy |-> NoCopy, fresh |-> "fallback", for |-> 0]

RemoteChanges ==
    /\ remote < MaxUrls
    /\ remote' = remote + 1
    /\ UNCHANGED <<entry, memo, made, dead, asked, showing>>

ReplaceMemo_Slip(src) ==
    /\ made.n < MaxHandles
    /\ made' = [n |-> made.n + 1, of |-> [made.of EXCEPT ![made.n + 1] = src]]
    /\ dead' = dead
    /\ memo' = [src |-> src, obj |-> made.n + 1]

\* createObjectURL, then replaceMemo, which revokes the one it replaces.
ReplaceMemo(src) ==
    /\ made.n < MaxHandles
    /\ made' = [n |-> made.n + 1, of |-> [made.of EXCEPT ![made.n + 1] = src]]
    /\ dead' = dead \cup ({memo.obj} \ {0})
    /\ memo' = [src |-> src, obj |-> made.n + 1]

Goes(c, at)   == asked' = [asked EXCEPT ![c].at = at]
Returns(c, copy) == asked' = [asked EXCEPT ![c] = [Waiting EXCEPT !.got = copy]]

\* ensureUserAvatarCached wants a URL, lookupCachedAvatar none: a copy that
\* will do is returned, and for another the download starts.
Wants(c, url, copy) ==
    IF url \in {0, copy.src} THEN Returns(c, copy)
    ELSE asked' = [asked EXCEPT ![c] = [Waiting EXCEPT !.at = "fetch", !.url = url]]

\* The memo answers at once; otherwise the entry is matched and then read.
AsksFor(c, url) ==
    /\ asked[c].at = "idle"
    /\ IF memo # NoCopy THEN Wants(c, url, memo)
       ELSE asked' = [asked EXCEPT ![c] = [Waiting EXCEPT !.at = "match", !.url = url]]
    /\ UNCHANGED <<remote, entry, memo, made, dead, showing>>

Matches(c) ==
    /\ asked[c].at = "match"
    /\ IF entry = 0 THEN Wants(c, asked[c].url, NoCopy)
       ELSE asked' = [asked EXCEPT ![c].at = "read", ![c].blob = entry]
    /\ UNCHANGED <<remote, entry, memo, made, dead, showing>>

ReadsCopy(c) ==
    /\ asked[c].at = "read"
    /\ ReplaceMemo(asked[c].blob)
    /\ Wants(c, asked[c].url, memo')
    /\ UNCHANGED <<remote, entry, showing>>

\* The download fails, or brings a picture, which is put and then shown.
Downloads(c) ==
    /\ asked[c].at = "fetch"
    /\ Returns(c, NoCopy) \/ Goes(c, "put")
    /\ UNCHANGED <<remote, entry, memo, made, dead, showing>>

Puts(c) ==
    /\ asked[c].at = "put"
    /\ \/ /\ entry' = asked[c].url
          /\ ReplaceMemo(asked[c].url)
          /\ Returns(c, memo')
       \/ Returns(c, NoCopy) /\ UNCHANGED <<entry, memo, made, dead>>
    /\ UNCHANGED <<remote, showing>>

\* clearAvatarObjectUrls, at a logout.
Clears ==
    /\ memo # NoCopy
    /\ dead' = dead \cup {memo.obj}
    /\ memo' = NoCopy
    /\ UNCHANGED <<remote, entry, made, asked, showing>>

Freshness_Slip(copy) ==
    IF copy # NoCopy THEN "fresh_local" ELSE IF remote # 0 THEN "remote_only" ELSE "fallback"

\* resolveAvatarModel.
Freshness(copy) ==
    IF copy # NoCopy /\ copy.src = remote THEN "fresh_local"
    ELSE IF copy # NoCopy THEN "stale_local"
    ELSE IF remote # 0 THEN "remote_only" ELSE "fallback"

\* The UI renders what a caller got.
Renders(c) ==
    /\ asked[c].at = "idle"
    /\ showing' = [copy |-> asked[c].got, fresh |-> Freshness(asked[c].got),
                   for |-> remote]
    /\ UNCHANGED <<remote, entry, memo, made, dead, asked>>

AvatarNext ==
    \/ RemoteChanges \/ Clears
    \/ \E c \in Asked : \/ \E url \in {0, remote} : AsksFor(c, url)
                        \/ Matches(c) \/ ReadsCopy(c) \/ Downloads(c) \/ Puts(c) \/ Renders(c)

AvatarSpec == AvatarInit /\ [][AvatarNext]_avatarVars

(* ----------------------------- properties ----------------------------- *)

\* Whatever calls overlap, the memo holds the one object URL that is not
\* revoked, so none leaks and the memo never hands out a dead one, and it
\* shows the picture its freshness key names.  What the UI was told is fresh
\* is a picture of the URL it was rendered for.
OneLiveHandle ==
    /\ 1..made.n \ dead = {memo.obj} \ {0}
    /\ memo.obj # 0 => made.of[memo.obj] = memo.src
    /\ showing.fresh = "fresh_local" => made.of[showing.copy.obj] = showing.for
===============================================================================

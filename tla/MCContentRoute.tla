--------------------------- MODULE MCContentRoute ---------------------------
(* Finite instances of ContentRoute for TLC. *)
EXTENDS ContentRoute

CONSTANTS t1, t2

(* Token references of policies: opaque, bound to qq, bound to another     *)
(* provider, not known to the store; and handles that callers send.        *)
Opaque  == [source |-> "^backend:", provider |-> None]
OfQq    == [source |-> "^backend:", provider |-> "qq"]
OfKugou == [source |-> "^backend:", provider |-> "kugou"]
OfOps   == [source |-> "^ops:", provider |-> None]
Cloud   == [source |-> "^cloud:", provider |-> None]

Known == {Opaque, OfQq, OfKugou}

Row(r, v, a, h) == [rule |-> r, version |-> v, action |-> a, ref |-> h]

Allows    == {Row("qq", 1, "allow", OfQq)}
DrmRows   == {Row("drm", 1, "block", None), Row("drm", 2, "region_restrict", None),
              Row("drm", 3, "allow", None)}
QqRows    == {Row("qq", 1, "allow", OfQq), Row("qq", 2, "allow", OfKugou),
              Row("qq", 3, "block", None)}
MixedRows == QqRows \cup {Row("drm", 1, "region_restrict", None)}

Mp3    == [format |-> "mp3", bitrate |-> 1, album |-> TRUE]
Flac   == [format |-> "flac", bitrate |-> 2, album |-> FALSE]
Ogg    == [format |-> "ogg", bitrate |-> 1, album |-> TRUE]
Single == {Mp3}
Fine   == {[Flac EXCEPT !.album = TRUE]}
Two    == {Mp3, Flac}
Three  == {Mp3, Flac, Ogg}

Sheets   == {<<"cleared">>, <<"cleared", "restricted">>}
NoSheets == {}

(* Devices: all mp3; only lossless and queries; mp3 and flac, slowly.      *)
Player == [kinds |-> Kinds, formats |-> {"mp3"}, maxBitrate |-> 2]
Finder == [kinds |-> {"content_query"}, formats |-> {"flac"}, maxBitrate |-> 2]
Slow   == [kinds |-> Kinds, formats |-> {"mp3", "flac"}, maxBitrate |-> 1]

Request(kind, provider, wanted, caller, handle, away, token, cap) ==
    [kind |-> kind, provider |-> provider, wanted |-> wanted, caller |-> caller,
     handle |-> handle, away |-> away, token |-> token, cap |-> cap]

(* Everybody's requests to the catalogue, anonymous or with a token. *)
CatalogueRequests ==
    {Request(k, "self", IF k = "content_query" THEN {t1, t2} ELSE {t1},
             "device-hub", None, away, "none", cap) :
        k \in Kinds, away \in BOOLEAN, cap \in {None, Player, Finder, Slow}}

(* Requests to qq and to an unknown provider: all callers, handles, tokens; *)
(* and for devices, to qq and to the catalogue.                            *)
ProviderRequests ==
    {Request(k, p, {t1}, c, None, FALSE, "none", cap) :
        k \in {"content_query", "content_stream"}, p \in {"qq", "self"},
        c \in {"cloud-ext", "device-hub"}, cap \in {Player, Finder, Slow}} \cup
    {Request(k, p, {t1}, c, h, away, token, None) :
        k \in {"content_query", "content_stream"}, p \in {"qq", "unknown"},
        c \in {"cloud-ext", "device-hub", "content-backend"}, h \in {None, Cloud, OfOps, OfQq},
        away \in BOOLEAN, token \in {"none", "good", "bad", "malformed"}}

(* Any kind of request to qq by the caller that may have it; and a stream  *)
(* from the catalogue to a device of limited formats.                      *)
QqRequests == {Request(k, "qq", {t1}, "cloud-ext", None, FALSE, "none", None) : k \in Kinds}
StreamSelf == {Request("content_stream", "self", {t1}, "device-hub", None, FALSE, "none", Player)}

(* What providers answer: conforming, not conforming, and bodies whose own *)
(* fields take the place of the envelope's.                                *)
Plain  == [body : Bodies]
Bodied == Plain \cup {[body |-> "complete", backend |-> "self_hosted", mode |-> "degraded",
                      completion |-> "DONE_WITH_CONCERNS"],
                     [body |-> "complete", completion |-> "BLOCKED", error |-> "REGION_RESTRICTED"],
                     [body |-> "complete", error |-> "NO_RESULT"],
                     [body |-> "empty", completion |-> "NEEDS_CONTEXT", mode |-> "unavailable"]}

Nobody == {}
Qq     == {"qq"}
=============================================================================

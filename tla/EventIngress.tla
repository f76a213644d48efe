---------------------------- MODULE EventIngress ----------------------------
(***************************************************************************)
(* From the JSON a platform sends to the envelope of a root message: the   *)
(* protocol adapters (onebot11/adapter/event_converter.cpp, common/        *)
(* message_type.cpp, telegram/adapter/protocol_adapter.cpp), the           *)
(* EventDispatcher and core/message_event_ingress.cpp.                     *)
(*                                                                         *)
(* A document j has                                                        *)
(*   j.protocol  "onebot" or "telegram";                                   *)
(*   j.parses    it is JSON, and what its event reads has the right types  *)
(*               (Telegram: and it has an update_id);                      *)
(*   j.kind      its post_type, or the kind of the update; detail is its   *)
(*               meta_event_type;                                          *)
(*   j.chat, j.chatType, j.group, j.guild, j.channel, j.user               *)
(*               the ids it carries, NoId if there is none;                *)
(*   j.content   what a Telegram message contains, with or without the     *)
(*               fields its segment needs: [key, whole];                   *)
(*   j.text      its text, as CommandTable reads it.                       *)
(***************************************************************************)
EXTENDS Sequences

CONSTANTS
    Raw,        \* the type of root messages (RawMessageEvent)
    Notice      \* the type of root notices (RawNoticeEvent)

NoId == "no id"
NoEvent == [type |-> "none"]

\* An id that is not there is read as an empty string.
get_id_as_string(id) == IF id = NoId THEN "" ELSE id

-----------------------------------------------------------------------------
(* OneBot 11.                                                              *)

MessageEventFromJson(j) ==
    [type |-> "MessageEvent", sub_type |-> "", chat |-> NoId, guild |-> j.guild, channel |-> j.channel,
     group |-> j.group, user |-> get_id_as_string(j.user), text |-> j.text]

NoticeEventFromJson(j) ==
    [type |-> "NoticeEvent", group |-> j.group, user |-> get_id_as_string(j.user)]

from_v11_json(j) ==
    CASE ~j.parses                                           -> NoEvent
      [] j.parses /\ j.kind = "message"                      -> MessageEventFromJson(j)
      [] j.parses /\ j.kind = "notice"                       -> NoticeEventFromJson(j)
      [] j.parses /\ j.kind = "request"                      -> [type |-> "RequestEvent"]
      [] j.parses /\ j.kind = "meta_event" /\ j.detail = "heartbeat" -> [type |-> "HeartbeatEvent"]
      [] j.parses /\ j.kind = "meta_event" /\ j.detail # "heartbeat" -> [type |-> "MetaEvent"]
      [] OTHER                                               -> NoEvent

-----------------------------------------------------------------------------
(* Telegram.                                                               *)

\* Media need their file_id, a sticker more: without it the message is dropped.
Media == {"photo", "sticker", "video", "animation", "document", "audio", "voice", "video_note"}
ContentRefused(content) == content.key \in Media /\ ~content.whole

\* The chat is the group of a message unless it is private or a channel.
GroupOfChat(j) == IF j.chat # NoId /\ j.chatType \in {"group", "supergroup"} THEN j.chat ELSE NoId

\* The whole message is kept as the event's data, and with it the chat.
parse_message_event(j) ==
    IF ContentRefused(j.content) THEN NoEvent
    ELSE [type |-> "MessageEvent", sub_type |-> "", chat |-> j.chat, guild |-> NoId, channel |-> NoId,
          group |-> GroupOfChat(j), user |-> get_id_as_string(j.user), text |-> j.text]

parse_edited_message_event(j) ==
    LET event == parse_message_event(j)
    IN IF event = NoEvent THEN NoEvent ELSE [event EXCEPT !.sub_type = "edited"]

\* A callback query is a notice of the group its message is in, whatever the chat is.
parse_callback_query_event(j) ==
    [type |-> "NoticeEvent", group |-> j.chat, user |-> get_id_as_string(j.user)]

parse_update(j) ==
    CASE ~j.parses -> NoEvent
      [] j.parses /\ j.kind \in {"message", "channel_post", "edited_channel_post"} -> parse_message_event(j)
      [] j.parses /\ j.kind = "edited_message" -> parse_edited_message_event(j)
      [] j.parses /\ j.kind = "callback_query" -> parse_callback_query_event(j)
      [] OTHER -> NoEvent

-----------------------------------------------------------------------------
(* Dispatch and ingress. A value of an envelope's field is the sequence of *)
(* the words between its colons.                                           *)

\* The event types main registers a handler for; any other event is dropped.
Handled == {"MessageEvent", "NoticeEvent"}

Given(id) == id \notin {NoId, ""}

notice_conversation(e) ==
    IF Given(e.group) THEN <<"group", e.group>>
    ELSE IF e.user # "" THEN <<"private", e.user>>
    ELSE <<"global">>

message_conversation(e) ==
    IF Given(e.chat) THEN <<"chat", e.chat>>
    ELSE IF e.guild # NoId /\ e.channel # NoId THEN <<"guild", e.guild, "channel", e.channel>>
    ELSE IF Given(e.group) THEN <<"group", e.group>>
    ELSE IF Given(e.channel) THEN <<"channel", e.channel>>
    ELSE notice_conversation(e)

\* The fields of payload and raw that partition expressions name.
Fields(e, conversation) ==
    [conversation_id |-> conversation,
     sender |-> <<e.user>>,
     group_id |-> <<get_id_as_string(e.group)>>]

NoEnvelope == [type |-> "none", bot |-> "none"]

raw_message_envelope(platform, bot, e) ==
    [type |-> Raw, processed |-> FALSE, platform |-> platform, bot |-> bot, text |-> e.text,
     fields |-> Fields(e, message_conversation(e))]

raw_notice_envelope(platform, bot, e) ==
    [type |-> Notice, processed |-> FALSE, platform |-> platform, bot |-> bot,
     fields |-> Fields(e, notice_conversation(e))]

\* EventDispatcher::dispatch of the event a bot's adapter makes of a document.
Envelope(received) ==
    LET j == received.json
        e == IF j.protocol = "onebot" THEN from_v11_json(j) ELSE parse_update(j)
    IN CASE e.type \notin Handled    -> NoEnvelope
         [] e.type = "MessageEvent" -> raw_message_envelope(received.platform, received.bot, e)
         [] e.type = "NoticeEvent"  -> raw_notice_envelope(received.platform, received.bot, e)
=============================================================================

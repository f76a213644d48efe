-------------------------- MODULE MCMessageRouting --------------------------
(***************************************************************************)
(* Instances of MessageRouting: a pipeline for root messages with an async *)
(* stage, a stage that waits for it and a terminal async stage; a          *)
(* pipeline that can feed itself; a pipeline for failures whose actor is   *)
(* not registered.                                                         *)
(***************************************************************************)
EXTENDS MessageRouting

MCMatchedBy == [pay |-> {"pay1", "both"}, buy |-> {"both"}]

MCCommandConfig ==
    [actors |-> [shop |-> [pay |-> [accepted |-> TRUE, valid |-> TRUE, pattern |-> "pay"],
                           buy |-> [accepted |-> TRUE, valid |-> TRUE, pattern |-> "buy"],
                           end |-> [accepted |-> TRUE, valid |-> TRUE, pattern |-> NoPattern]]],
     bots   |-> [bot |-> [type |-> {"qq"}, target |-> ""], tele |-> [type |-> {"telegram"}, target |-> "tele"]],
     routes |-> <<[actor |-> "shop", platforms |-> <<{"qq"}>>, commands |-> <<"pay", "buy">>,
                   bots |-> <<"bot">>, fallback |-> "continue"],
                  [actor |-> "shop", platforms |-> <<{"qq"}>>, commands |-> <<"end">>,
                   bots |-> <<"bot">>, fallback |-> "consume"],
                  [actor |-> "shop", platforms |-> <<{"telegram"}>>, commands |-> <<"end">>,
                   bots |-> <<"tele">>, fallback |-> "consume"]>>]

Stage(input, outputs, after, async, actor) ==
    [input |-> input, outputs |-> outputs, after |-> after, async |-> async, actor |-> actor]

MCPipelines ==
    << [source |-> "raw",
        stages |-> << Stage("raw", {"note"}, {}, TRUE, "store"),
                      Stage("raw", {}, {1}, FALSE, "shop"),
                      Stage("raw", {}, {}, TRUE, "store") >>],
       [source |-> "note",
        stages |-> << Stage("note", {}, {}, FALSE, "store") >>],
       [source |-> "ActorFailed",
        stages |-> << Stage("ActorFailed", {}, {}, FALSE, "nobody") >>] >>

Text(name) == [slash |-> TRUE, entity |-> "command", name |-> name, canonical |-> TRUE, target |-> ""]

OneBot(kind, name) ==
    [platform |-> {"qq"}, bot |-> "bot",
     json |-> [protocol |-> "onebot", parses |-> TRUE, kind |-> kind, detail |-> "heartbeat",
               group |-> "", guild |-> NoId, channel |-> NoId, user |-> "u", text |-> Text(name)]]

Telegram(kind, chatType, key, whole, name) ==
    [platform |-> {"telegram"}, bot |-> "tele",
     json |-> [protocol |-> "telegram", parses |-> TRUE, kind |-> kind, chat |-> "c", chatType |-> chatType,
               content |-> [key |-> key, whole |-> whole], user |-> "u", text |-> Text(name)]]

\* Commands of each fallback, a text that matches two patterns, a heartbeat, a
\* notice, and on Telegram an edited command, a picture without its file and a
\* callback query.
MCReceived ==
    {OneBot("message", "pay1"), OneBot("message", "end"), OneBot("message", "both"),
     OneBot("meta_event", ""), OneBot("notice", ""),
     Telegram("edited_message", "group", "text", TRUE, "end"),
     Telegram("channel_post", "channel", "photo", FALSE, ""),
     Telegram("callback_query", "private", "text", TRUE, "")}
MCReceivedPay == {OneBot("message", "pay1")}

MCEmissions ==
    [shop   |-> {<<>>, <<"note", "continue">>, <<"consume">>, <<"mismatch">>},
     store  |-> {<<"note">>},
     nobody |-> {<<>>}]

MCPartition == [shop |-> <<"conversation_id">>, store |-> <<>>, nobody |-> <<>>]
MCPartitionByGroup == [shop |-> <<"group_id", "sender">>, store |-> <<>>, nobody |-> <<>>]
=============================================================================

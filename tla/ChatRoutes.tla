------------------------------ MODULE ChatRoutes ------------------------------
(***************************************************************************)
(* Which agent answers a message, in which conversation, and where the     *)
(* reply goes: the resolver of gateway.New, matchChannel and its relatives, *)
(* conversationKey and replyThreadTS.  Pure operators.                      *)
(*                                                                         *)
(* A key of chat.channels or no_mention.by_channel is an id, a name or a    *)
(* glob: [kind, of, prefix, names], where prefix is the number of           *)
(* characters before the glob's first * and names are the channel names it  *)
(* matches.  A name the gateway does not know is "".                        *)
(***************************************************************************)
EXTENDS Configuration

(* channelKeyMatches.                                                       *)
KeyMatches(key, id, name) ==
  \/ key.kind = "id" /\ key.of = id
  \/ name # "" /\ key.kind = "name" /\ key.of = name
  \/ name # "" /\ key.kind = "glob" /\ name \in key.names

(* literalPrefixLen; a key without a * is all prefix.                       *)
Rank(key) == CASE key.kind = "id" -> 2000 [] key.kind = "name" -> 1000
               [] OTHER -> key.prefix

(* matchChannel: the id, then the name, then the glob with the longest      *)
(* literal prefix.  Two globs of equal length tie, and the iteration order  *)
(* of the map decides: the set holds every entry that may win.              *)
MatchChannel(id, name, channels) ==
  LET matching == {k \in DOMAIN channels : KeyMatches(k, id, name)}
  IN  {channels[k] : k \in {k \in matching : \A l \in matching : Rank(k) >= Rank(l)}}

(* usersAllowedWithoutMention: the union over every key that matches.       *)
UsersAllowedWithoutMention(id, name, everywhere, byChannel) ==
  everywhere \cup UNION {byChannel[k] :
                           k \in {k \in DOMAIN byChannel : KeyMatches(k, id, name)}}

(* The resolver of gateway.New.  A direct message goes to the DM agent and  *)
(* is always threaded; elsewhere a matching channel entry overrides the     *)
(* default agent and the default reply strategy, each where it is set.      *)
Route(agent, threaded) == [agent |-> agent, threaded |-> threaded]

RouteOfDM(chat) ==
  Route(IF chat.dmAgent # "" THEN chat.dmAgent ELSE chat.agent, TRUE)

RoutesOfChannel(id, name, chat) ==
  LET matched == MatchChannel(id, name, chat.channels)
      default == Route(chat.agent, EffectiveReplyOnThread(chat))
  IN  IF matched = {} THEN {default}
      ELSE {Route(IF cc.agent # "" THEN cc.agent ELSE default.agent,
                  IF cc.reply # "unset" THEN cc.reply = "thread" ELSE default.threaded)
              : cc \in matched}

Overridden(route, req) ==
  IF req.override # "" THEN [route EXCEPT !.agent = req.override] ELSE route

Routes(req, name, chat) ==
  {Overridden(r, req) : r \in IF req.dm THEN {RouteOfDM(chat)}
                                      ELSE RoutesOfChannel(req.channel, name, chat)}

(* conversationKey: a threaded conversation is its thread; a top-level      *)
(* message roots one, or joins the channel-wide conversation.               *)
ConversationKey(req, threaded) ==
  [channel |-> req.channel, dm |-> req.dm,
   thread |-> IF req.thread = "" /\ threaded THEN req.ts ELSE req.thread]

(* replyThreadTS: where the answer is posted; "" is the channel itself.     *)
ReplyThreadTS(req, threaded) ==
  IF req.thread # "" THEN req.thread ELSE IF threaded THEN req.ts ELSE ""
=============================================================================

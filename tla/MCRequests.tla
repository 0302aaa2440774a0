---------------------------- MODULE MCRequests ----------------------------
(***************************************************************************)
(* Requests for HttpApi: for every channel a good one, the same one        *)
(* spelled differently, a different one, and one for each way of being     *)
(* refused.                                                                *)
(***************************************************************************)
EXTENDS Integers

Plain(channel, key, message) ==
  [channel |-> channel, binds |-> TRUE, parses |-> TRUE, maxRetries |-> -1,
   sendAt |-> 0, key |-> key, message |-> message]

SMS(to) == [to |-> to, text |-> TRUE]
Get(method, url) == [url |-> url, method |-> method, headers |-> TRUE]
File(name, data) == [name |-> name, data |-> data]
Letter(attachments) == [to |-> TRUE, subject |-> TRUE, attachments |-> attachments]
Post1(attachments) == [channelId |-> TRUE, text |-> TRUE, attachments |-> attachments]
Chat(attachments) == [chatId |-> FALSE, attachments |-> attachments]

SmsRequests ==
  LET good == Plain("sms", "key", SMS(<<"a", "b">>))
  IN  {good, Plain("sms", "key", SMS(<<"a", "", "a", "b">>)),
       [good EXCEPT !.maxRetries = -2], [good EXCEPT !.maxRetries = 0],
       [good EXCEPT !.parses = FALSE], [good EXCEPT !.sendAt = -1],
       Plain("sms", "", SMS(<<"a">>)), Plain("sms", "", SMS(<<"a", "a">>)),
       Plain("sms", "", SMS(<<"", "">>))}

HttpRequests ==
  {Plain("http", "key", Get("", "url")), Plain("http", "key", Get(" POST ", " url ")),
   Plain("http", "key", Get("GET", "url")), Plain("http", "bad", Get("", "url")),
   Plain("http", "key", Get("", "mailto"))}

FileRequests ==
  {Plain("email", "key", Letter(<<File(TRUE, "good"), File(FALSE, "bad")>>)),
   Plain("email", "key", Letter(<<File(TRUE, "good")>>)),
   Plain("email", "", Letter(<<File(TRUE, "bad")>>)),
   Plain("mattermost", "key", Post1(<<File(TRUE, "none")>>)),
   Plain("mattermost", "key", [Post1(<<>>) EXCEPT !.channelId = FALSE]),
   Plain("bale", "key", Chat(<<>>))}

Requests == SmsRequests \cup HttpRequests \cup FileRequests
=============================================================================

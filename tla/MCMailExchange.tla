---------------------------- MODULE MCMailExchange ----------------------------
(***************************************************************************)
(* A small instance of MailExchange: two requests that claim one key, and  *)
(* four mails: a reply with a rejected and an accepted attachment, another *)
(* mail with its Message-ID and a repeated attachment, one without a       *)
(* Message-ID, and a copy of a request.                                    *)
(***************************************************************************)
EXTENDS MailExchange, TLC

CONSTANTS r1, r2, x, a, b

Mail(mid, replyTo, references, token, attachments) ==
  [mid |-> mid, replyTo |-> replyTo, references |-> references, token |-> token,
   attachments |-> attachments]

MCRequestKey == [r \in Requests |-> "key"]

MCMails ==
  { Mail(x,    r1,   <<>>,       None, <<b, a>>),
    Mail(x,    None, <<r1, x>>,  None, <<a, a>>),
    Mail(None, None, <<r1, x>>,  None, <<>>),
    Mail(r1,   None, <<>>,       r1,   <<>>) }

Symmetry == Permutations(Sessions)
=============================================================================

------------------------------ MODULE MCServer -------------------------------
(* Instances of Server for TLC.                                            *)
EXTENDS Server

(* A cloud resource name as the Authenticator wants it: listed without the *)
(* prefix that the ids of its tokens have.                                 *)
ListedName == {<<"crn:v1:broker">>}
TokenIds   == {<<"crn-", "crn:v1:broker">>, <<"iam-ServiceId-1">>}

(* The two examples of the README, as they are listed there.               *)
DocumentedIds == {<<"iam-ServiceId-1">>, <<"crn-", "crn:v1:broker">>}
=============================================================================

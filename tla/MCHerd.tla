------------------------------- MODULE MCHerd -------------------------------
(* Herd on small instances: people are numbers (their pubkey order), events  *)
(* are named strings.  Every definition here is a value for a constant.      *)
EXTENDS Herd

ThreePeople == 1..3
TwoPeople == 1..2

\* Three zaps of one, two and three sats: by 1, 2 and 3; and a second by 1.
ZapNames == {"zapA", "zapB", "zapC"}
TwoZaps == {"zapA", "zapB"}
OneZap == {"zapA"}
SocialNames == {"like", "repost"}
NoEvents == {}
JustRepost == {"repost"}

AllAuthors == [zapA |-> 1, zapB |-> 2, zapC |-> 3, like |-> 1, repost |-> 2]
AuthorsOf == [e \in Events |-> AllAuthors[e]]
SatsOf == [z \in Payments |-> CASE z = "zapA" -> 2 [] z = "zapB" -> 2 [] z = "zapC" -> 3]
KindsOf == [e \in Socials |-> IF e = "repost" THEN 6 ELSE 7]

OneTwo == {1, 2}
JustOne == {1}
JustTwo == {2}
Three == {3}

\* One run, two families of behaviours, told apart by the minimum.  With a
\* minimum of 1 three people send five events on one day and the process
\* restarts; with a minimum of 2 there is one seat, and two of the people send
\* three of the events over two days with resets, bans and profile refreshes.
OneDay == /\ now' = 0 /\ banned' = {} /\ ~ManualReset
          /\ <<rows, hasAddress>>' = <<rows, hasAddress>> \/ desk' # desk
TwoDays == /\ capacity = 1 /\ 3 \notin rows'
           /\ created'["zapB"] = Never /\ created'["zapC"] = Never
           /\ ~Restart
ByFamily == IF minimum = 1 THEN OneDay ELSE TwoDays
=============================================================================

------------------------------ MODULE MCService ------------------------------
\* Instances of Service for TLC.
EXTENDS Service, TLC

Capture(source, n) == [source |-> source, version |-> n]

Insight(id, source, key, words, topic, weight, quality) ==
  [id |-> id, source |-> source, key |-> key, words |-> words, topics |-> {topic},
   domain |-> topic % 2, type |-> 1, weight |-> weight, quality |-> quality]

MCSources == 1 .. 4
MCVideos == {3, 4}
MCTime == <<20, 40, 0, 30>>

\* A post listed on two pages, one that is edited, a video captured again.
MCWindows ==
  {<<Capture(1, 1), Capture(1, 1)>>,
   <<Capture(2, 1), Capture(1, 2), Capture(3, 1)>>,
   <<Capture(3, 2), Capture(4, 1)>>}

\* The third source is given a fallback or a synthesis.
MCMade ==
  LET one == Insight(11, 1, 1, {1, 2}, 1, 50, 90)
      two == Insight(21, 2, 2, {3, 4}, 2, 60, 90)
      three == Insight(31, 3, 1, {5}, 1, 55, 90)
      poor == Insight(31, 3, 3, {1, 2, 3}, 3, 40, 58)
      other == Insight(32, 3, 2, {6}, 2, 62, 0)
      four == Insight(41, 4, 4, {3, 5, 6}, 2, 64, 80)
  IN  [c \in {Capture(s, 1) : s \in 1 .. 4} \cup {Capture(1, 2), Capture(3, 2)} |->
         CASE c.source = 1 -> {<<one>>}
           [] c.source = 2 -> {<<two>>}
           [] c = Capture(3, 1) -> {<<poor>>, <<three, other>>}
           [] c = Capture(3, 2) -> {<<three>>}
           [] c.source = 4 -> {<<four>>}]

MCKeywords ==
  [c \in DOMAIN MCMade |->
     CASE c.source = 1 -> {1, 2}
       [] c.source = 2 -> {1, 3}
       [] c.source = 3 -> {1, 2, 3}
       [] OTHER -> {2, 3, 4}]

\* A post and a video, the post on two pages, the video alone.
MCLists == {<<1, 3>>, <<1, 1>>, <<3>>}

\* Users, playlists and workers are named nowhere.
Same == Permutations(Users) \cup Permutations(Playlists) \cup Permutations(Workers)
=============================================================================

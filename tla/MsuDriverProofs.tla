---------------------------- MODULE MsuDriverProofs ----------------------------
(* Proofs about MsuDriver: which music sounds, through states restored in     *)
(* sessions that find another pack, or none.  For any songs and packs.        *)
EXTENDS MsuDriver, TLAPS

Any == Song \cup {NoSong}

\* The driver's idea of the chip is right.
ChipKnown ==
  /\ playing = device.playing
  /\ playing => song # NoSong /\ device.track = song
  /\ rewound => ~playing /\ song # NoSong /\ device.track = song /\ device.at = "start"
  /\ volume = Unsent \/ volume = device.volume
  /\ song # NoSong => session.on /\ song \in session.pack

\* The song selected is the one that the SPC was loaded with; only inside a call
\* of the older driver is it still to be loaded.
SongKnown ==
  /\ call # NoSong => volumeSent /\ loadingSong = call /\ ~spc.playing /\ ~playing
  /\ ~foreign /\ session.on /\ volumeSent => call # NoSong
  /\ song # NoSong => song = loadingSong /\ (~volumeSent => song = spc.song)
  /\ volumeSent /\ call = NoSong => song = NoSong

\* The SPC is hushed when a track is to be played in its place, and only then.
HushKnown == ~foreign /\ session.hush => (spc.volume = 0 <=> song # NoSong)

\* What holds of the song, the SPC and the hush holds of the saved state, in the
\* session that saved it.
SavedKnown ==
  /\ saved.call # NoSong =>
       saved.volumeSent /\ saved.loadingSong = saved.call /\ ~saved.spc.playing
  /\ ~saved.foreign /\ saved.session.on /\ saved.volumeSent => saved.call # NoSong
  /\ saved.song # NoSong =>
       /\ saved.session.on /\ saved.song \in saved.session.pack
       /\ saved.song = saved.loadingSong
       /\ ~saved.volumeSent => saved.song = saved.spc.song
  /\ saved.volumeSent /\ saved.call = NoSong => saved.song = NoSong
  /\ ~saved.foreign /\ saved.session.hush =>
       (saved.spc.volume = 0 <=> saved.song # NoSong)

\* After a frame the chip does what the SPC does.
FrameKnown ==
  framed /\ session.on /\ song # NoSong =>
    /\ playing = spc.playing
    /\ playing => device.volume = spc.fade

SavedType ==
  /\ saved.spc \in [song : Any, playing : BOOLEAN, fade : Level, volume : Level]
  /\ saved.call \in Any /\ saved.asked \in Any /\ saved.song \in Any
  /\ saved.loadingSong \in Any /\ saved.volumeSent \in BOOLEAN
  /\ saved.session \in Sessions /\ saved.foreign \in BOOLEAN

Inductive ==
  /\ TypeOK /\ SavedType
  /\ ChipKnown /\ SongKnown /\ HushKnown /\ SavedKnown /\ FrameKnown

\* What FromTheStart says of one step.
Starts == ~device.playing /\ device'.playing => device'.at = "start"

-----------------------------------------------------------------------------
(* The steps.                                                              *)

LEMMA BootTypes ==
  /\ Silent \in [song : Any, playing : BOOLEAN, fade : Level, volume : Level]
  /\ Reset \in [track : Any, playing : BOOLEAN, at : {"start", "within"}, volume : Level]
  /\ Silent.volume # 0 /\ Silent.playing = FALSE /\ Reset.playing = FALSE
BY DEF Silent, Reset, Any, Level, Full

LEMMA InitInductive == Init => Inductive
<1> SUFFICES ASSUME Init PROVE Inductive
  OBVIOUS
<1> USE BootTypes DEF Init, Boot
<1>1. /\ saved.spc = Silent /\ saved.call = NoSong /\ saved.asked = NoSong
      /\ saved.song = NoSong /\ saved.loadingSong = NoSong /\ saved.volumeSent = FALSE
      /\ saved.session = session /\ saved.foreign = FALSE
  BY DEF Image
<1>2. SavedType
  BY <1>1 DEF SavedType, Any
<1>3. {call, song, loadingSong, asked} \subseteq Any
      /\ {rewound, playing, volumeSent, framed, foreign} \subseteq BOOLEAN
  BY Zenon DEF Any
<1>4. TypeOK
  BY <1>3 DEF TypeOK, Any
<1>5. ChipKnown /\ SongKnown /\ HushKnown /\ SavedKnown /\ FrameKnown
  BY <1>1 DEF ChipKnown, SongKnown, HushKnown, SavedKnown, FrameKnown
<1> QED
  BY <1>2, <1>4, <1>5 DEF Inductive

\* The chip after a song is selected, and the driver after SelectSong.
LEMMA SelectedChip ==
  ASSUME TypeOK, NEW s \in Any, NEW d,
         d \in [track : Any, playing : BOOLEAN, at : {"start", "within"}, volume : Level]
  PROVE  /\ Selected(d, s) \in
              [track : Any, playing : BOOLEAN, at : {"start", "within"}, volume : Level]
         /\ Selected(d, s).playing = FALSE /\ Selected(d, s).at = "start"
         /\ Selected(d, s).volume = d.volume
         /\ s \in session.pack => Selected(d, s).track = s
BY DEF Selected, Any

\* A frame keeps the driver's picture of the chip, and brings it in step with
\* the SPC.
LEMMA FrameStep == Inductive /\ Frame => Inductive' /\ Starts
<1> SUFFICES ASSUME Inductive, Frame PROVE Inductive' /\ Starts
  OBVIOUS
<1> DEFINE Device == [track : Any, playing : BOOLEAN, at : {"start", "within"}, volume : Level]
<1>1. /\ device \in Device /\ spc.fade \in Level /\ song \in Any /\ spc.playing \in BOOLEAN
      /\ playing \in BOOLEAN /\ rewound \in BOOLEAN /\ volume \in Level \cup {Unsent}
  BY DEF Inductive, TypeOK, Any
<1>2. framed' = TRUE /\ UNCHANGED <<session, spc, call, saved, asked, foreign>>
  BY DEF Frame
<1> DEFINE Known ==
      /\ device' \in Device /\ song' \in Any /\ playing' \in BOOLEAN /\ rewound' \in BOOLEAN
      /\ volume' \in Level \cup {Unsent} /\ loadingSong' = loadingSong
      /\ volumeSent' = volumeSent /\ song' = song
      /\ ChipKnown' /\ FrameKnown'
      /\ spc.playing \/ ~playing' \/ playing' = playing
      /\ Starts
<1>3. Known
  <2> USE DEF Starts
  <2>1. CASE ~session.on \/ song = NoSong
    BY <1>1, <1>2, <2>1 DEF Frame, driver, Inductive, ChipKnown, FrameKnown
  <2>2. CASE session.on /\ song # NoSong /\ ~spc.playing
    <3>1. CASE playing
      BY <1>1, <1>2, <2>2, <3>1 DEF Frame, MsuStop, Stopped, Inductive, ChipKnown, FrameKnown
    <3>2. CASE ~playing
      BY <1>1, <1>2, <2>2, <3>2 DEF Frame, Inductive, ChipKnown, FrameKnown
    <3> QED
      BY <3>1, <3>2, <1>1
  <2>3. CASE session.on /\ song # NoSong /\ spc.playing
    <3> DEFINE d == IF spc.fade # volume THEN [device EXCEPT !.volume = spc.fade] ELSE device
    <3>1. /\ loadingSong' = loadingSong /\ volumeSent' = volumeSent /\ volume' = spc.fade
          /\ IF playing THEN device' = d /\ UNCHANGED <<song, playing, rewound>>
             ELSE MsuPlay(d)
      BY <2>3 DEF Frame
    <3>2. /\ d \in Device /\ d.volume = spc.fade /\ d.playing = device.playing
          /\ d.track = device.track /\ d.at = device.at
      BY <1>1 DEF Inductive, ChipKnown, Level, Unsent
    <3> HIDE DEF d
    <3>3. CASE playing
      BY <1>1, <1>2, <2>3, <3>1, <3>2, <3>3 DEF Inductive, ChipKnown, FrameKnown
    <3>4. CASE ~playing
      <4> DEFINE e == IF rewound THEN d ELSE Selected(d, song)
      <4>1. song \in session.pack
        BY <2>3 DEF Inductive, ChipKnown
      <4>2. /\ device' = Started(e) /\ playing' = TRUE /\ rewound' = FALSE /\ song' = song
        BY <3>1, <3>4, <4>1 DEF MsuPlay
      <4>3. e \in Device /\ e.volume = spc.fade /\ e.track = song /\ e.at = "start"
        BY <1>1, <3>2, <4>1, SelectedChip DEF Inductive, ChipKnown
      <4> HIDE DEF e
      <4>4. device' \in Device /\ device'.volume = spc.fade /\ device'.track = song
            /\ device'.playing = TRUE /\ device'.at = "start"
        BY <4>2, <4>3 DEF Started
      <4> QED
        BY <1>1, <1>2, <2>3, <3>1, <4>1, <4>2, <4>4 DEF ChipKnown, FrameKnown
    <3> QED
      BY <3>3, <3>4, <1>1
  <2> QED
    BY <2>1, <2>2, <2>3, <1>1
<1> HIDE DEF Known
<1>4. /\ {rewound', playing', volumeSent', framed', foreign'} \subseteq BOOLEAN
      /\ {call', song', loadingSong', asked'} \subseteq Any
  BY <1>2, <1>3 DEF Known, Inductive, TypeOK, Any
<1>5. TypeOK'
  BY <1>2, <1>3, <1>4 DEF Known, Inductive, TypeOK, Any
<1>6. SongKnown'
  BY <1>1, <1>2, <1>3 DEF Known, Inductive, SongKnown
<1>7. HushKnown' /\ SavedKnown' /\ SavedType'
  BY <1>2, <1>3 DEF Known, Inductive, HushKnown, SavedKnown, SavedType
<1> QED
  BY <1>2, <1>3, <1>5, <1>6, <1>7 DEF Known, Inductive

\* Selecting a song, or forgetting it, leaves a driver that knows the chip.
LEMMA SelectStep ==
  ASSUME Inductive, NEW s \in Any, UNCHANGED <<session, volume>>,
         \/ SelectSong(s) /\ session.on
         \/ MsuForget
  PROVE  /\ device' \in [track : Any, playing : BOOLEAN, at : {"start", "within"}, volume : Level]
         /\ song' \in {s, NoSong} /\ playing' = FALSE /\ rewound' \in BOOLEAN
         /\ ChipKnown'
<1>1. device \in [track : Any, playing : BOOLEAN, at : {"start", "within"}, volume : Level]
  BY DEF Inductive, TypeOK, Any
<1>2. CASE SelectSong(s) /\ session.on
  <2>1. /\ device' = Selected(device, s) /\ playing' = FALSE
        /\ IF s \in session.pack THEN song' = s /\ rewound' = TRUE
           ELSE song' = NoSong /\ rewound' = FALSE
    BY <1>2 DEF SelectSong
  <2>2. /\ device' \in [track : Any, playing : BOOLEAN, at : {"start", "within"}, volume : Level]
        /\ device'.playing = FALSE /\ device'.at = "start" /\ device'.volume = device.volume
        /\ s \in session.pack => device'.track = s
    BY <1>1, <2>1, SelectedChip DEF Inductive
  <2>3. s \in session.pack => s # NoSong
    BY SongAssumption, PacksAssumption DEF Inductive, TypeOK, Sessions
  <2> QED
    BY <1>2, <2>1, <2>2, <2>3 DEF Inductive, ChipKnown
<1>3. CASE MsuForget
  BY <1>1, <1>3 DEF MsuForget, MsuStop, Stopped, Inductive, ChipKnown, Any
<1> QED
  BY <1>2, <1>3

LEMMA LoadSongStep == Inductive /\ LoadSong => Inductive' /\ Starts
<1> SUFFICES ASSUME Inductive, LoadSong PROVE Inductive' /\ Starts
  OBVIOUS
<1> DEFINE Device == [track : Any, playing : BOOLEAN, at : {"start", "within"}, volume : Level]
           Spc == [song : Any, playing : BOOLEAN, fade : Level, volume : Level]
<1>1. PICK a \in Song :
        /\ asked' = IF call = NoSong THEN a ELSE call
        /\ IF session.on THEN SongLoad(a)
           ELSE /\ UNCHANGED <<device, driver>>
                /\ spc' = [spc EXCEPT !.song = a, !.playing = FALSE, !.fade = Full]
  BY DEF LoadSong
<1>2. /\ call' = NoSong /\ framed' = FALSE /\ UNCHANGED <<session, saved>>
      /\ foreign' = (foreign /\ (volumeSent \/ ~session.on))
  BY DEF LoadSong
<1>3. /\ device \in Device /\ spc \in Spc /\ a \in Any /\ a # NoSong /\ asked' \in Any
      /\ call \in Any /\ loadingSong \in Any /\ song \in Any /\ Full \in Level /\ Full # 0
      /\ playing \in BOOLEAN /\ rewound \in BOOLEAN /\ volumeSent \in BOOLEAN
      /\ foreign \in BOOLEAN
      /\ volume \in Level \cup {Unsent}
  BY <1>1, SongAssumption DEF Inductive, TypeOK, Any, Full, Level
<1> DEFINE Known ==
      /\ device' \in Device /\ spc' \in Spc /\ song' \in Any /\ loadingSong' \in Any
      /\ playing' \in BOOLEAN /\ rewound' \in BOOLEAN /\ volumeSent' \in BOOLEAN
      /\ volume' \in Level \cup {Unsent}
      /\ ChipKnown' /\ HushKnown'
      /\ session.on => ~volumeSent'
      /\ song' # NoSong => song' = loadingSong' /\ song' = spc'.song
      /\ volumeSent' => song' = NoSong
      /\ device' = device \/ device'.playing = FALSE
<1>4. Known
  <2>1. CASE ~session.on
    <3>1. /\ UNCHANGED <<device, song, rewound, playing, volume, loadingSong, volumeSent>>
          /\ spc' = [spc EXCEPT !.song = a, !.playing = FALSE, !.fade = Full]
      BY <1>1, <2>1 DEF driver
    <3> QED
      BY <1>2, <1>3, <2>1, <3>1 DEF Inductive, ChipKnown, HushKnown
  <2>2. CASE session.on /\ volumeSent
    <3>1. /\ spc' = [spc EXCEPT !.song = loadingSong, !.playing = FALSE]
          /\ UNCHANGED <<device, song, rewound, playing, loadingSong, volume>>
          /\ volumeSent' = FALSE
      BY <1>1, <2>2 DEF SongLoad
    <3>2. song # NoSong => song = loadingSong
      BY <2>2 DEF Inductive, SongKnown
    <3> QED
      BY <1>2, <1>3, <2>2, <3>1, <3>2 DEF Inductive, ChipKnown, HushKnown
  <2>3. CASE session.on /\ ~volumeSent
    <3>1. /\ loadingSong' = a /\ SelectSong(a) /\ volumeSent' = FALSE /\ volume' = volume
          /\ spc' = [song |-> a, playing |-> FALSE, fade |-> Full, volume |->
                       IF ~session.hush THEN spc.volume
                       ELSE IF song' # NoSong THEN 0 ELSE Full]
      BY <1>1, <2>3 DEF SongLoad
    <3>2. /\ device' \in Device /\ song' \in {a, NoSong} /\ playing' = FALSE
          /\ rewound' \in BOOLEAN /\ ChipKnown'
      BY <1>2, <1>3, <2>3, <3>1, SelectStep
    <3>3. 0 \in Level /\ spc.volume \in Level
      BY <1>3 DEF Level
    <3>4. spc' \in Spc /\ spc'.song = a
          /\ (session.hush => spc'.volume = IF song' # NoSong THEN 0 ELSE Full)
      BY <1>3, <3>1, <3>3
    <3> QED
      BY <1>2, <1>3, <2>3, <3>1, <3>2, <3>4 DEF HushKnown, ChipKnown, Any
  <2> QED
    BY <2>1, <2>2, <2>3, <1>3
<1> HIDE DEF Known
<1>5. {rewound', playing', volumeSent', framed', foreign'} \subseteq BOOLEAN
      /\ {call', song', loadingSong', asked'} \subseteq Any
  BY <1>2, <1>3, <1>4 DEF Known, Any
<1>6. TypeOK'
  BY <1>2, <1>4, <1>5 DEF Known, Inductive, TypeOK, Any
<1>7. SongKnown' /\ Starts
  BY <1>2, <1>4 DEF Known, SongKnown, ChipKnown, Starts
<1>8. SavedKnown' /\ SavedType' /\ FrameKnown'
  BY <1>2 DEF Inductive, SavedKnown, SavedType, FrameKnown
<1> QED
  BY <1>4, <1>6, <1>7, <1>8 DEF Known, Inductive

LEMMA LoadStateStep == Inductive /\ LoadState => Inductive' /\ Starts
<1> SUFFICES ASSUME Inductive, LoadState PROVE Inductive' /\ Starts
  OBVIOUS
<1>1. /\ spc' = saved.spc /\ call' = saved.call /\ asked' = saved.asked
      /\ loadingSong' = saved.loadingSong /\ volumeSent' = saved.volumeSent
      /\ framed' = FALSE /\ UNCHANGED <<session, volume, saved>>
      /\ IF session.on /\ saved.song # NoSong THEN SelectSong(saved.song) ELSE MsuForget
      /\ foreign' = (saved.foreign \/ ~Alike(session, saved.session, saved.loadingSong))
  BY DEF LoadState
<1>2. /\ saved.song \in Any
      /\ saved.song # NoSong =>
           saved.session.on /\ saved.song \in saved.session.pack /\ saved.song = saved.loadingSong
  BY DEF Inductive, SavedType, SavedKnown
<1>3. /\ device' \in [track : Any, playing : BOOLEAN, at : {"start", "within"}, volume : Level]
      /\ song' \in {saved.song, NoSong} /\ playing' = FALSE /\ rewound' \in BOOLEAN
      /\ ChipKnown'
  BY <1>1, <1>2, SelectStep
<1>4. foreign' \/ song' = saved.song
  BY <1>1, <1>2 DEF SelectSong, MsuForget, Alike
<1>5. /\ {rewound', playing', volumeSent', framed', foreign'} \subseteq BOOLEAN
      /\ {call', song', loadingSong', asked'} \subseteq Any
  BY <1>1, <1>2, <1>3 DEF Inductive, SavedType, Any
<1>6. TypeOK'
  BY <1>1, <1>3, <1>5 DEF Inductive, TypeOK, SavedType, Any
<1>7. SongKnown'
  BY <1>1, <1>3 DEF Inductive, SavedType, SavedKnown, SongKnown, Alike
<1>8. HushKnown'
  BY <1>1, <1>4 DEF Inductive, SavedKnown, HushKnown, Alike
<1>9. SavedKnown' /\ SavedType' /\ FrameKnown'
  BY <1>1 DEF Inductive, SavedKnown, SavedType, FrameKnown
<1>10. Starts
  BY <1>3 DEF ChipKnown, Starts
<1> QED
  BY <1>3, <1>6, <1>7, <1>8, <1>9, <1>10 DEF Inductive

LEMMA SaveStep == Inductive /\ (SaveState \/ OlderState) => Inductive' /\ Starts
<1> SUFFICES ASSUME Inductive, SaveState \/ OlderState PROVE Inductive' /\ Starts
  OBVIOUS
<1>1. UNCHANGED <<session, spc, device, call, song, rewound, playing, volume,
                  loadingSong, volumeSent, asked, framed, foreign>>
  BY DEF SaveState, OlderState, external, driver
<1>2. TypeOK' /\ ChipKnown' /\ SongKnown' /\ HushKnown' /\ FrameKnown'
  BY <1>1 DEF Inductive, TypeOK, ChipKnown, SongKnown, HushKnown, FrameKnown
<1>3. SavedType' /\ SavedKnown'
  <2>1. CASE SaveState
    <3>1. /\ saved'.spc = spc /\ saved'.call = call /\ saved'.asked = asked
          /\ saved'.song = song /\ saved'.loadingSong = loadingSong
          /\ saved'.volumeSent = volumeSent /\ saved'.session = session
          /\ saved'.foreign = foreign
      BY <2>1 DEF SaveState, Image
    <3>2. SavedType'
      BY <3>1 DEF Inductive, TypeOK, SavedType, Any
    <3>3. SavedKnown'
      BY <1>1, <3>1 DEF Inductive, ChipKnown, SongKnown, HushKnown, SavedKnown
    <3> QED
      BY <3>2, <3>3
  <2>2. CASE OlderState
    <3>1. PICK s \in Song :
            LET found == IF s \in session.pack THEN s ELSE NoSong IN
            saved' = [spc |-> [Silent EXCEPT !.volume = IF found = NoSong \/ ~session.hush
                                                        THEN Full ELSE 0],
                      call |-> s, asked |-> NoSong, song |-> found,
                      loadingSong |-> s, volumeSent |-> TRUE,
                      session |-> session, foreign |-> FALSE]
      BY <2>2 DEF OlderState
    <3> DEFINE found == IF s \in session.pack THEN s ELSE NoSong
    <3>2. /\ saved'.call = s /\ saved'.asked = NoSong /\ saved'.song = found
          /\ saved'.loadingSong = s /\ saved'.volumeSent = TRUE
          /\ saved'.session = session /\ saved'.foreign = FALSE
          /\ saved'.spc = [Silent EXCEPT !.volume = IF found = NoSong \/ ~session.hush
                                                    THEN Full ELSE 0]
      BY <3>1
    <3>3. /\ saved'.spc \in [song : Any, playing : BOOLEAN, fade : Level, volume : Level]
          /\ saved'.spc.playing = FALSE
          /\ saved'.spc.volume = IF found = NoSong \/ ~session.hush THEN Full ELSE 0
      <4>1. PICK v \in Level : v = IF found = NoSong \/ ~session.hush THEN Full ELSE 0
        BY DEF Full, Level
      <4>2. saved'.spc = [song |-> NoSong, playing |-> FALSE, fade |-> Full, volume |-> v]
        BY <3>2, <4>1 DEF Silent
      <4>3. NoSong \in Any /\ Full \in Level
        BY DEF Any, Full, Level
      <4> HIDE DEF found
      <4> QED
        BY <4>1, <4>2, <4>3
    <3>4. session.on /\ s # NoSong /\ Full # 0 /\ session \in Sessions
      BY <2>2, SongAssumption DEF OlderState, Full, Inductive, TypeOK
    <3> QED
      BY <1>1, <3>2, <3>3, <3>4 DEF SavedType, SavedKnown, Any
  <2> QED
    BY <2>1, <2>2
<1> QED
  BY <1>1, <1>2, <1>3 DEF Inductive, Starts

\* The guest, the chip's own time, and a new session.
LEMMA OtherStep ==
  Inductive /\ (PlaySpc \/ PlayOn \/ Restart \/ UNCHANGED vars) => Inductive' /\ Starts
<1> SUFFICES ASSUME Inductive, PlaySpc \/ PlayOn \/ Restart \/ UNCHANGED vars
             PROVE  Inductive' /\ Starts
  OBVIOUS
<1>1. CASE PlaySpc
  <2>1. /\ framed' = FALSE
        /\ UNCHANGED <<session, device, call, song, rewound, playing, volume,
                       loadingSong, volumeSent, saved, asked, foreign>>
    BY <1>1 DEF PlaySpc, driver
  <2>2. PICK p \in BOOLEAN, f \in Level : spc' = [spc EXCEPT !.playing = p, !.fade = f]
    BY <1>1 DEF PlaySpc
  <2>3. /\ spc' \in [song : Any, playing : BOOLEAN, fade : Level, volume : Level]
        /\ spc'.song = spc.song /\ spc'.volume = spc.volume
    BY <2>2 DEF Inductive, TypeOK, Any
  <2>4. call = NoSong
    BY <1>1 DEF PlaySpc
  <2>5. TypeOK' /\ SavedType'
    <3>1. {rewound', playing', volumeSent', framed', foreign'} \subseteq BOOLEAN
      BY <2>1 DEF Inductive, TypeOK
    <3> QED
      BY <2>1, <2>3, <3>1 DEF Inductive, TypeOK, SavedType, Any
  <2>6. ChipKnown' /\ SongKnown' /\ HushKnown' /\ SavedKnown' /\ FrameKnown'
    BY <2>1, <2>3, <2>4 DEF Inductive, ChipKnown, SongKnown, HushKnown, SavedKnown, FrameKnown
  <2> QED
    BY <2>1, <2>5, <2>6 DEF Inductive, Starts
<1>2. CASE PlayOn
  <2>1. /\ device.playing /\ device' = [device EXCEPT !.at = "within"]
        /\ UNCHANGED <<session, spc, call, song, rewound, playing, volume,
                       loadingSong, volumeSent, saved, asked, framed, foreign>>
    BY <1>2 DEF PlayOn, driver
  <2>2. /\ device' \in [track : Any, playing : BOOLEAN, at : {"start", "within"}, volume : Level]
        /\ device'.playing = device.playing /\ device'.track = device.track
        /\ device'.volume = device.volume
    BY <2>1 DEF Inductive, TypeOK, Any
  <2>3. TypeOK' /\ SavedType'
    BY <2>1, <2>2 DEF Inductive, TypeOK, SavedType, Any
  <2>4. ChipKnown' /\ SongKnown' /\ HushKnown' /\ SavedKnown' /\ FrameKnown'
    BY <2>1, <2>2 DEF Inductive, ChipKnown, SongKnown, HushKnown, SavedKnown, FrameKnown
  <2> QED
    BY <2>2, <2>3, <2>4 DEF Inductive, Starts
<1>3. CASE Restart
  <2>1. /\ session' \in Sessions /\ UNCHANGED saved /\ foreign' = FALSE
        /\ spc' = Silent /\ device' = Reset /\ call' = NoSong
        /\ song' = NoSong /\ rewound' = FALSE /\ playing' = FALSE /\ volume' = Unsent
        /\ loadingSong' = NoSong /\ volumeSent' = FALSE /\ asked' = NoSong /\ framed' = FALSE
    BY <1>3 DEF Restart
  <2>2. /\ {rewound', playing', volumeSent', framed', foreign'} \subseteq BOOLEAN
        /\ {call', song', loadingSong', asked'} \subseteq Any
    BY <2>1 DEF Any
  <2>3. TypeOK' /\ SavedType'
    BY <2>1, <2>2, BootTypes DEF Inductive, TypeOK, SavedType, Any
  <2>4. ChipKnown' /\ SongKnown' /\ HushKnown' /\ SavedKnown' /\ FrameKnown'
    BY <2>1, BootTypes DEF Inductive, ChipKnown, SongKnown, HushKnown, SavedKnown, FrameKnown
  <2> QED
    BY <2>1, <2>3, <2>4, BootTypes DEF Inductive, Starts
<1>4. CASE UNCHANGED vars
  BY <1>4 DEF vars, external, driver, Inductive, TypeOK, SavedType, ChipKnown, SongKnown,
              HushKnown, SavedKnown, FrameKnown, Starts
<1> QED
  BY <1>1, <1>2, <1>3, <1>4

-----------------------------------------------------------------------------
(* The theorems.                                                           *)

LEMMA InductiveStep == Inductive /\ [Next]_vars => Inductive' /\ Starts
BY FrameStep, LoadSongStep, LoadStateStep, SaveStep, OtherStep DEF Next

\* Inductive holds in every state.
THEOREM InductiveHolds == Spec => []Inductive
<1> QED
  BY InitInductive, InductiveStep, PTL DEF Spec

\* The chip never plays the track of another song than the SPC's: not across a
\* song load, not after a state is restored (SelectSong, ApplyLoadedState).
THEOREM TrackIsRight == Spec => []RightTrack
<1>1. Inductive => RightTrack
  BY DEF Inductive, ChipKnown, SongKnown, RightTrack
<1> QED
  BY <1>1, InductiveHolds, PTL

\* After a frame the music is heard from the pack or from the SPC, never from
\* both or neither (HushSpc and Lufia2MsuDriverFrame agree), until a state is
\* restored whose song this session would have seen to otherwise, and again from
\* the next song loaded.
THEOREM MusicIsOne == Spec => []OneMusic
<1>1. Inductive => OneMusic
  <2> SUFFICES ASSUME Inductive, framed, session.hush, spc.playing, ~foreign
               PROVE  device.playing # Audible
    BY DEF OneMusic
  <2>1. device.playing \in BOOLEAN /\ spc.playing \in BOOLEAN /\ device.playing = playing
    BY DEF Inductive, TypeOK, ChipKnown
  <2>2. song # NoSong => playing
    BY DEF Inductive, ChipKnown, FrameKnown
  <2>3. playing => song # NoSong
    BY DEF Inductive, ChipKnown
  <2>4. spc.volume = 0 <=> song # NoSong
    BY DEF Inductive, HushKnown
  <2> QED
    BY <2>1, <2>2, <2>3, <2>4 DEF Audible
<1> QED
  BY <1>1, InductiveHolds, PTL

\* After a frame the chip plays only what the SPC plays, at the SPC's fade
\* (Lufia2MsuDriverFrame).
THEOREM MusicFollowsSpc == Spec => []FollowsSpc
<1>1. Inductive => FollowsSpc
  BY DEF Inductive, ChipKnown, FrameKnown, FollowsSpc
<1> QED
  BY <1>1, InductiveHolds, PTL

\* A track always starts at its beginning, after a stop as after a load
\* (s_rewound and MsuPlay).
THEOREM TracksFromTheStart == Spec => FromTheStart
<1>1. Inductive /\ [Next]_vars => [~device.playing /\ device'.playing => device'.at = "start"]_vars
  BY InductiveStep DEF Starts
<1> QED
  BY <1>1, InductiveHolds, PTL DEF Spec, FromTheStart

\* Only in a session with the chip armed does the guest call the older driver.
CallsOnlyWithPack ==
  /\ call # NoSong /\ ~foreign => session.on
  /\ saved.call # NoSong /\ ~saved.foreign => saved.session.on

LEMMA CallsStep == CallsOnlyWithPack /\ [Next]_vars => CallsOnlyWithPack'
<1> SUFFICES ASSUME CallsOnlyWithPack, [Next]_vars PROVE CallsOnlyWithPack'
  OBVIOUS
<1>1. CASE Frame \/ PlaySpc \/ PlayOn \/ UNCHANGED vars
  BY <1>1 DEF Frame, PlaySpc, PlayOn, vars, external, CallsOnlyWithPack
<1>2. CASE LoadSong \/ LoadState \/ Restart
  BY <1>2 DEF LoadSong, LoadState, Restart, Alike, CallsOnlyWithPack
<1>3. CASE SaveState
  BY <1>3 DEF SaveState, Image, external, CallsOnlyWithPack
<1>4. CASE OlderState
  BY <1>4 DEF OlderState, external, CallsOnlyWithPack
<1> QED
  BY <1>1, <1>2, <1>3, <1>4 DEF Next

\* The SPC is uploaded the song the guest asked for, whatever call of the older
\* driver a state was saved in (SongLoad's s_loading_song), unless a session
\* without that driver restored it.
THEOREM SongIsRight == Spec => RightSong
<1>1. Init => CallsOnlyWithPack
  BY DEF Init, Boot, Image, CallsOnlyWithPack
<1>2. Spec => []CallsOnlyWithPack
  BY <1>1, CallsStep, PTL DEF Spec
<1>3. Inductive /\ CallsOnlyWithPack /\ [Next]_vars
        => [LoadSong /\ ~foreign => spc'.song = asked']_vars
  <2> SUFFICES ASSUME Inductive, CallsOnlyWithPack, LoadSong, ~foreign
               PROVE  spc'.song = asked'
    OBVIOUS
  <2>1. PICK a \in Song :
          /\ asked' = IF call = NoSong THEN a ELSE call
          /\ IF session.on THEN SongLoad(a)
             ELSE /\ UNCHANGED <<device, driver>>
                  /\ spc' = [spc EXCEPT !.song = a, !.playing = FALSE, !.fade = Full]
    BY DEF LoadSong
  <2>2. /\ spc \in [song : Any, playing : BOOLEAN, fade : Level, volume : Level]
        /\ volumeSent \in BOOLEAN
        /\ call # NoSong => volumeSent /\ loadingSong = call
        /\ ~foreign /\ session.on /\ volumeSent => call # NoSong
    BY DEF Inductive, TypeOK, Any, SongKnown
  <2>3. CASE ~session.on
    BY <2>1, <2>2, <2>3 DEF CallsOnlyWithPack
  <2>4. CASE session.on /\ volumeSent
    BY <2>1, <2>2, <2>4 DEF SongLoad
  <2>5. CASE session.on /\ ~volumeSent
    BY <2>1, <2>2, <2>5 DEF SongLoad
  <2> QED
    BY <2>2, <2>3, <2>4, <2>5
<1> QED
  BY <1>2, <1>3, InductiveHolds, PTL DEF Spec, RightSong
=============================================================================

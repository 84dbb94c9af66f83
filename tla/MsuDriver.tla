------------------------------- MODULE MsuDriver -------------------------------
(***************************************************************************)
(* Which music sounds: the driver that plays a pack's MSU-1 track in place  *)
(* of the SPC's song and hushes the SPC meanwhile                          *)
(* (src/src/lufia2_msu_driver.c), through song loads, stops, fades, saved   *)
(* states, and sessions that find another pack or none.                     *)
(*                                                                         *)
(* The MSU-1 chip, the SPC and the guest are external.  The chip is not     *)
(* part of a saved state, SPC RAM is.                                       *)
(***************************************************************************)
EXTENDS Naturals

CONSTANTS
  Song, NoSong,
  Packs     \* the sets of songs for which a session may find a track

ASSUME SongAssumption == NoSong \notin Song
ASSUME PacksAssumption == Packs \subseteq SUBSET Song

Level == 0 .. 1      \* of a fade; both ends of 0 .. $FF
Full == 1            \* VOLUME_FULL
Unsent == 2          \* s_volume = -1
Sessions == [pack : Packs, on : BOOLEAN, hush : BOOLEAN]

VARIABLES
  session,   \* the pack found, whether the chip is armed, LUFIA2_MSU_HUSH
  spc,       \* external: SPC RAM, and what it plays
  device,    \* external: the MSU-1 chip
  call,      \* external: the song whose load the guest is inside, of an older state
  song, rewound, playing, volume, loadingSong, volumeSent,
  saved,     \* a saved state
  asked,     \* history: the song the guest asked for last
  framed,    \* history: the driver has seen a frame since anything changed
  foreign    \* history: the song was loaded in a session that saw to it otherwise

external == <<session, spc, device, call>>
driver == <<song, rewound, playing, volume, loadingSong, volumeSent>>
vars == <<external, driver, saved, asked, framed, foreign>>

Silent == [song |-> NoSong, playing |-> FALSE, fade |-> Full, volume |-> Full]
Reset == [track |-> NoSong, playing |-> FALSE, at |-> "start", volume |-> Full]
Image == [spc |-> spc, call |-> call, asked |-> asked, song |-> song,
          loadingSong |-> loadingSong, volumeSent |-> volumeSent,
          session |-> session, foreign |-> foreign]

Boot ==
  /\ spc = Silent /\ device = Reset /\ call = NoSong
  /\ song = NoSong /\ rewound = FALSE /\ playing = FALSE /\ volume = Unsent
  /\ loadingSong = NoSong /\ volumeSent = FALSE /\ asked = NoSong /\ framed = FALSE
  /\ foreign = FALSE

Init == session \in Sessions /\ Boot /\ saved = Image

-----------------------------------------------------------------------------
(* The chip.                                                               *)

Selected(d, s) ==
  [d EXCEPT !.track = IF s \in session.pack THEN s ELSE NoSong,
            !.playing = FALSE, !.at = "start"]
Stopped(d) == [d EXCEPT !.playing = FALSE]
Started(d) == [d EXCEPT !.playing = TRUE]

-----------------------------------------------------------------------------
(* The driver.                                                             *)

\* Mistake: a stop is taken for a rewind.
MsuStopRewound ==
  /\ device' = Stopped(device)
  /\ playing' = FALSE /\ rewound' = TRUE

MsuStop ==
  /\ device' = Stopped(device)
  /\ playing' = FALSE /\ rewound' = FALSE

MsuForget == MsuStop /\ song' = NoSong

\* SelectSong: forget the song before, then this one if it has a track.
SelectSong(s) ==
  /\ device' = Selected(device, s) /\ playing' = FALSE
  /\ IF s \in session.pack
     THEN song' = s /\ rewound' = TRUE
     ELSE song' = NoSong /\ rewound' = FALSE

\* Mistake: the SPC stays hushed for a song that has no track.
SongLoadHushes(a) ==
  /\ IF volumeSent
     THEN /\ spc' = [spc EXCEPT !.song = loadingSong, !.playing = FALSE]
          /\ UNCHANGED <<device, song, rewound, playing, loadingSong>>
     ELSE /\ loadingSong' = a /\ SelectSong(a)
          /\ spc' = [song |-> a, playing |-> FALSE, fade |-> Full, volume |->
                       IF session.hush /\ song' # NoSong THEN 0 ELSE spc.volume]
  /\ volumeSent' = FALSE /\ UNCHANGED volume

\* SongLoad, and the upload it precedes: the SPC is stopped before every load,
\* and reads its volume at each note-on.
SongLoad(a) ==
  /\ IF volumeSent
     THEN /\ spc' = [spc EXCEPT !.song = loadingSong, !.playing = FALSE]
          /\ UNCHANGED <<device, song, rewound, playing, loadingSong>>
     ELSE /\ loadingSong' = a /\ SelectSong(a)
          /\ spc' = [song |-> a, playing |-> FALSE, fade |-> Full, volume |->
                       IF ~session.hush THEN spc.volume
                       ELSE IF song' # NoSong THEN 0 ELSE Full]
  /\ volumeSent' = FALSE /\ UNCHANGED volume

\* MsuPlay, after the fade level d has been sent.
MsuPlay(d) ==
  IF rewound \/ song \in session.pack
  THEN /\ device' = Started(IF rewound THEN d ELSE Selected(d, song))
       /\ playing' = TRUE /\ rewound' = FALSE /\ UNCHANGED song
  ELSE /\ device' = Selected(d, song)
       /\ song' = NoSong /\ playing' = FALSE /\ rewound' = FALSE

\* Mistake: the fade is followed only when a track starts.
FrameFadesAtStart ==
  /\ IF ~session.on \/ song = NoSong THEN UNCHANGED <<device, driver>>
     ELSE IF ~spc.playing
     THEN /\ UNCHANGED <<song, volume, loadingSong, volumeSent>>
          /\ IF playing THEN MsuStop ELSE UNCHANGED <<device, playing, rewound>>
     ELSE /\ UNCHANGED <<loadingSong, volumeSent>>
          /\ IF playing THEN UNCHANGED <<device, song, playing, rewound, volume>>
             ELSE volume' = spc.fade /\ MsuPlay([device EXCEPT !.volume = spc.fade])
  /\ framed' = TRUE /\ UNCHANGED <<session, spc, call, saved, asked, foreign>>

\* Lufia2MsuDriverFrame: play, stop and fade as the SPC music does.
Frame ==
  /\ IF ~session.on \/ song = NoSong THEN UNCHANGED <<device, driver>>
     ELSE IF ~spc.playing
     THEN /\ UNCHANGED <<song, volume, loadingSong, volumeSent>>
          /\ IF playing THEN MsuStop ELSE UNCHANGED <<device, playing, rewound>>
     ELSE /\ UNCHANGED <<loadingSong, volumeSent>>
          /\ volume' = spc.fade
          /\ LET d == IF spc.fade # volume THEN [device EXCEPT !.volume = spc.fade]
                      ELSE device
             IN IF playing THEN device' = d /\ UNCHANGED <<song, playing, rewound>>
                ELSE MsuPlay(d)
  /\ framed' = TRUE /\ UNCHANGED <<session, spc, call, saved, asked, foreign>>

-----------------------------------------------------------------------------
(* The guest, and the chip's own time.                                     *)

\* The guest loads a song; inside a call of the older driver the accumulator
\* holds something else.
LoadSong ==
  /\ \E a \in Song :
       /\ asked' = IF call = NoSong THEN a ELSE call
       /\ IF session.on THEN SongLoad(a)
          ELSE /\ UNCHANGED <<device, driver>>
               /\ spc' = [spc EXCEPT !.song = a, !.playing = FALSE, !.fade = Full]
  /\ call' = NoSong /\ framed' = FALSE
  /\ foreign' = (foreign /\ (volumeSent \/ ~session.on))
  /\ UNCHANGED <<session, saved>>

PlaySpc ==
  /\ call = NoSong /\ spc.song # NoSong
  /\ \E p \in BOOLEAN, f \in Level :
       spc' = [spc EXCEPT !.playing = p, !.fade = f]
  /\ framed' = FALSE
  /\ UNCHANGED <<session, device, call, driver, saved, asked, foreign>>

PlayOn ==
  /\ device.playing /\ device' = [device EXCEPT !.at = "within"]
  /\ UNCHANGED <<session, spc, call, driver, saved, asked, framed, foreign>>

-----------------------------------------------------------------------------
(* Saved states and sessions.                                              *)

SaveState ==
  /\ saved' = Image
  /\ UNCHANGED <<external, driver, asked, framed, foreign>>

\* Two sessions see to the song a alike.
Alike(s, t, a) == s.on = t.on /\ s.hush = t.hush /\ (a \in s.pack <=> a \in t.pack)

\* Mistake: the track goes on with the song of the abandoned timeline.
LoadStateKeepsTrack ==
  /\ spc' = saved.spc /\ call' = saved.call /\ asked' = saved.asked
  /\ loadingSong' = saved.loadingSong /\ volumeSent' = saved.volumeSent
  /\ song' = saved.song
  /\ foreign' = (saved.foreign \/ ~Alike(session, saved.session, saved.loadingSong))
  /\ framed' = FALSE
  /\ UNCHANGED <<session, device, rewound, playing, volume, saved>>

\* Lufia2MsuLoadState and Lufia2MsuApplyLoadedState, or a moment rewound to.
LoadState ==
  /\ spc' = saved.spc /\ call' = saved.call /\ asked' = saved.asked
  /\ loadingSong' = saved.loadingSong /\ volumeSent' = saved.volumeSent
  /\ IF session.on /\ saved.song # NoSong THEN SelectSong(saved.song) ELSE MsuForget
  /\ foreign' = (saved.foreign \/ ~Alike(session, saved.session, saved.loadingSong))
  /\ framed' = FALSE /\ UNCHANGED <<session, volume, saved>>

\* A state of the older driver, taken inside the call by which it sent the
\* volume; the guest then comes back to the song's load.
OlderState ==
  /\ session.on
  /\ \E s \in Song :
       LET found == IF s \in session.pack THEN s ELSE NoSong IN
       saved' = [spc |-> [Silent EXCEPT !.volume = IF found = NoSong \/ ~session.hush
                                                   THEN Full ELSE 0],
                 call |-> s, asked |-> NoSong, song |-> found,
                 loadingSong |-> s, volumeSent |-> TRUE,
                 session |-> session, foreign |-> FALSE]
  /\ UNCHANGED <<external, driver, asked, framed, foreign>>

\* A new session may find another pack, or none.
Restart ==
  /\ session' \in Sessions
  /\ spc' = Silent /\ device' = Reset /\ call' = NoSong
  /\ song' = NoSong /\ rewound' = FALSE /\ playing' = FALSE /\ volume' = Unsent
  /\ loadingSong' = NoSong /\ volumeSent' = FALSE /\ asked' = NoSong /\ framed' = FALSE
  /\ foreign' = FALSE
  /\ UNCHANGED saved

Next ==
  \/ Frame \/ LoadSong \/ PlaySpc \/ PlayOn
  \/ SaveState \/ LoadState \/ OlderState \/ Restart

Spec == Init /\ [][Next]_vars

-----------------------------------------------------------------------------
(* Properties.                                                             *)

TypeOK ==
  LET Any == Song \cup {NoSong} IN
  /\ session \in Sessions
  /\ spc \in [song : Any, playing : BOOLEAN, fade : Level, volume : Level]
  /\ device \in [track : Any, playing : BOOLEAN, at : {"start", "within"}, volume : Level]
  /\ {call, song, loadingSong, asked} \subseteq Any
  /\ {rewound, playing, volumeSent, framed, foreign} \subseteq BOOLEAN
  /\ volume \in Level \cup {Unsent}

Audible == spc.playing /\ spc.volume # 0

\* The SPC is uploaded the song the guest asked for, whatever call of the older
\* driver a state was saved in, unless a session without that driver restored it.
RightSong == [][LoadSong /\ ~foreign => spc'.song = asked']_vars

\* The chip never plays the track of another song than the SPC's: not across a
\* load, not after a state is restored.
RightTrack == device.playing => device.track = spc.song

\* After a frame the music is heard once: from the pack or from the SPC, never
\* from both and never from neither, until a state is restored whose song this
\* session would have seen to otherwise; and again from the next song on.
OneMusic ==
  framed /\ session.hush /\ spc.playing /\ ~foreign => (device.playing # Audible)

\* After a frame the chip plays only what the SPC plays, at the SPC's fade.
FollowsSpc ==
  framed /\ device.playing => spc.playing /\ device.volume = spc.fade

\* A track always starts at its beginning, after a stop as after a load.
FromTheStart ==
  [][~device.playing /\ device'.playing => device'.at = "start"]_vars

\* A song without a track, or with the chip off, is played by the SPC.
SpcFillsIn ==
  framed /\ session.hush /\ spc.playing /\ ~device.playing => Audible
=============================================================================

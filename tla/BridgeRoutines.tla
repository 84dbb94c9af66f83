--------------------------- MODULE BridgeRoutines ---------------------------
(***************************************************************************)
(* The routines of the game that run as portable C, as their entry points  *)
(* in actor_bridge.c admit them: how a routine calls what it calls, the    *)
(* size of the guest frame it returns through (2: RTS, 3: RTL, 0: it never *)
(* returns), the register widths it was written for, and the stack         *)
(* pointers it accepts.  A definition stands for a stretch of the file and *)
(* is named for the first routine in it; routines that enter alike are one *)
(* element.  What else an entry point asks for -- a bank, a direct page, a *)
(* register, a clock -- is a refusal DecompBridge leaves open.             *)
(***************************************************************************)
EXTENDS Naturals

\* The widths of the accumulator (m) and of the index registers (x).
M8X8   == {"m8x8"}
M8X16  == {"m8x16"}
M16X16 == {"m16x16"}
M8     == M8X8 \cup M8X16
M16X8  == {"m16x8"}
M16    == M16X8 \cup M16X16
X16    == M8X16 \cup M16X16
AnyWidth == M8 \cup M16

\* How the child of a routine is reached, a function of actor_bridge.c each.
Protocols == {"leaf", "slot", "pushed", "music", "engine", "scene", "owned"}

Kind(calls, frame, widths) ==
  [calls |-> calls, frame |-> frame, widths |-> widths, low |-> 0, high |-> \hFFFF]
Leaf(frame, widths)   == Kind("leaf", frame, widths)
Slot(frame, widths)   == Kind("slot", frame, widths)
Pushed(frame, widths) == Kind("pushed", frame, widths)
Music(frame, widths)  == Kind("music", frame, widths)
Engine(frame, widths) == Kind("engine", frame, widths)
Scene(frame, widths)  == Kind("scene", frame, widths)
Owned(frame, widths)  == Kind("owned", frame, widths)

\* Entry points that also look at where S is.
Within(low, high, kind) == [kind EXCEPT !.low = low, !.high = high]
From(low, kind) == Within(low, \h1FFC, kind)

UpdateActorSlots_ff ==
  {Leaf(2, M8), Leaf(3, AnyWidth), Leaf(3, M8), Within(\h1F60, \h1FFD, Pushed(2, M8)), Slot(3, M8)}

LoadItemRecord_ff ==
  {Leaf(2, AnyWidth), Leaf(2, M16X16), Leaf(2, M8), Leaf(2, M8X16), Leaf(3, AnyWidth), Leaf(3, M8),
   Leaf(3, M8X16)}

BattleGaugeBlock_ff ==
  {Leaf(2, M16X16), Leaf(2, M8X16), Leaf(2, X16), Leaf(3, AnyWidth), Leaf(3, M8X16), Leaf(3, X16)}

BattleGaugePanel_ff ==
  {Leaf(2, M8X16), Leaf(3, M8X16)}

BattlePortraits_ff ==
  {Leaf(2, M8), Leaf(2, M8X16), Within(\h1F20, \h1FFB, Leaf(3, M16X16)), Leaf(3, M8),
   Within(\h1F20, \h1FFB, Leaf(3, M8)), Leaf(3, M8X16)}

InventoryAdd_ff ==
  {Leaf(2, M8X16), Leaf(3, AnyWidth), Leaf(3, M8), Leaf(3, M8X16)}

SpriteSetTable_ff ==
  {Leaf(2, M16X16), Leaf(2, M8X16), Leaf(2, X16), From(\h1F10, Leaf(3, M16X16)), Leaf(3, M8),
   Leaf(3, M8X16)}

ActorPrimaryUpdateWithChildren_ff ==
  {Pushed(2, M8), Pushed(2, M8X16), Pushed(3, M8X16)}

BattleEntry_ff ==
  {Pushed(2, M8X16), Pushed(3, M8X16)}

BattleMainLoop_ff ==
  {Pushed(2, M8X16)}

BattlePartyStatusGate_ff ==
  {Leaf(3, M8X16), Pushed(2, M8X16), Pushed(3, AnyWidth), Pushed(3, M8X16), Pushed(3, X16)}

BattleFlashActionActor_ff ==
  {Leaf(2, M8X16), Leaf(3, M8X16), Pushed(2, M8X16), Pushed(3, AnyWidth)}

BattleActionWindow_ff ==
  {Leaf(3, M16X16), Leaf(3, M8X16), Pushed(2, M8X16), Pushed(3, M16X16), Pushed(3, M8X16)}

BattleRenderMessage_ff ==
  {Leaf(2, M8X16), Leaf(3, AnyWidth), Leaf(3, M8), Leaf(3, M8X16), Pushed(2, M8X16),
   Pushed(3, AnyWidth), Pushed(3, M8X16)}

FieldLoadMapHeader_ff ==
  {Leaf(2, M16X16), Leaf(2, M8X16), Leaf(2, X16), Leaf(3, AnyWidth), Leaf(3, M8), Leaf(3, M8X16),
   Leaf(3, X16), Pushed(2, M8X16), Pushed(3, M8X16)}

FieldFindHeaderRecord_ff ==
  {Leaf(2, M16), Leaf(2, M16X16), Leaf(2, M8X16), Leaf(2, X16), Leaf(3, AnyWidth), Leaf(3, M8X16),
   Pushed(2, M8X16), Pushed(3, M8X16)}

ResolveSaveFileAddress_ff ==
  {Leaf(2, M8), Leaf(3, AnyWidth), Pushed(2, M8X16)}

LoadSong_ff ==
  {Leaf(2, AnyWidth), Leaf(2, M16X16), Leaf(3, AnyWidth), Pushed(2, M8X16), Pushed(3, AnyWidth),
   Pushed(3, M8X16), From(\h1F20, Pushed(3, M8X16)), Music(2, AnyWidth), Music(3, AnyWidth)}

FieldCopyMetatileGraphics_ff ==
  {Leaf(2, AnyWidth), Leaf(2, M16), Leaf(2, M16X16), From(0, Leaf(2, M8X16)), Leaf(3, AnyWidth),
   From(0, Leaf(3, X16)), Pushed(3, AnyWidth)}

WorldMapPlane_ff ==
  {From(0, Leaf(2, AnyWidth)), From(0, Leaf(2, M8X16)), From(\h1F00, Leaf(2, M8X16)),
   From(0, Leaf(3, AnyWidth))}

MenuItemIndex_ff ==
  {From(\h1F00, Leaf(2, AnyWidth)), From(\h1F00, Leaf(2, M8)), From(0, Leaf(2, M8X16)),
   From(0, Leaf(2, X16)), From(\h1F00, Leaf(3, AnyWidth)), From(\h1F00, Leaf(3, M8X16))}

BattleEffectVelocity_ff ==
  {From(0, Leaf(2, M16X16)), From(\h1F00, Leaf(2, M16X16)), From(\h1F03, Leaf(2, M8X16))}

WorldProduct16By8_ff ==
  {From(0, Leaf(2, M8X16)), From(\h1E00, Leaf(2, M8X16)), From(\h1E02, Leaf(2, M8X16)),
   From(\h1F00, Leaf(3, AnyWidth)), From(\h1F00, Leaf(3, M8X16))}

FieldMarkObjectSlots_ff ==
  {From(\h1F00, Leaf(2, AnyWidth)), From(\h1F00, Leaf(2, M8)), From(\h1F08, Leaf(2, M8X16)),
   From(\h1F00, Leaf(3, M8X16)), From(\h1F04, Leaf(3, M8X16))}

MenuCopyImageRow256_ff ==
  {From(\h1F04, Leaf(2, AnyWidth)), From(\h1F04, Leaf(2, M8X16)), From(\h1F00, Leaf(2, X16)),
   From(\h1F04, Leaf(2, X16)), From(\h1F08, Leaf(2, X16))}

NmiTilemapUploads_ff ==
  {From(\h1F02, Leaf(2, M16X16)), From(\h1F00, Leaf(2, M8)), From(\h1F02, Leaf(2, M8X16)),
   From(\h1F00, Leaf(2, X16))}

BattleColorsInit_ff ==
  {From(\h1F02, Leaf(2, M16X16)), From(\h1F04, Leaf(2, M16X16)), From(0, Leaf(2, M8X16)),
   From(\h1F00, Leaf(2, M8X16)), From(\h1F02, Leaf(3, M8X16))}

BattleEffectWindowBand_ff ==
  {From(0, Leaf(2, M16X16)), From(0, Leaf(2, M8X16)), From(\h1F00, Leaf(2, M8X16)),
   From(0, Leaf(2, X16)), From(\h1F00, Leaf(3, M8X16)), From(0, Leaf(3, X16))}

BattleDriftRecords_ff ==
  {From(\h1F00, Leaf(2, M16X16)), From(\h1F04, Leaf(2, M16X16)), From(\h1F08, Leaf(2, M16X16)),
   From(\h1F10, Leaf(2, M8X16)), From(\h1F00, Leaf(3, M8X16)), From(\h1F10, Leaf(3, M8X16)),
   From(\h1F00, Leaf(3, X16))}

MenuTileGridFill_ff ==
  {From(\h1F04, Pushed(2, M16X16)), From(\h1F10, Pushed(2, M8X16)), From(\h1F12, Pushed(2, M8X16)),
   From(\h1F04, Pushed(2, X16)), From(\h1F04, Pushed(3, M8X16)), From(\h1F10, Pushed(3, M8X16)),
   From(\h1F10, Pushed(3, X16))}

NmiSpritesPaletteAndPads_ff ==
  {From(\h1F00, Leaf(2, M8)), From(\h1F09, Leaf(3, AnyWidth)), From(\h1F02, Pushed(2, M8X16)),
   From(\h1F04, Pushed(2, M8X16)), From(\h1F05, Pushed(2, M8X16))}

BattleEffectDelay_ff ==
  {From(\h1F00, Leaf(2, M8X16))}

BattlePlayEffect_ff ==
  {From(\h1F10, Engine(3, M8X16))}

FieldRebuildSceneActors_ff ==
  {From(\h1F00, Scene(2, AnyWidth)), Within(\h1F10, \h1FFF, Scene(0, AnyWidth)),
   Within(\h1F10, \h1FFF, Scene(0, M8X16))}

BattleEffectFindActorSlot_ff ==
  {From(\h1F00, Leaf(2, M8X16)), From(\h1F02, Leaf(2, M8X16)), From(\h1F03, Leaf(2, M8X16)),
   From(\h1F04, Leaf(2, M8X16)), From(\h1F05, Leaf(2, M8X16)), From(\h1F00, Leaf(3, X16)),
   From(\h1F00, Pushed(2, M8X16)), From(\h1F00, Pushed(3, M8X16))}

BattleDefendAction_ff ==
  {From(\h1F00, Leaf(2, M8X16)), From(\h1F00, Leaf(3, M16X16)), From(\h1F00, Leaf(3, M8X16)),
   From(\h1F00, Pushed(3, M8X16))}

ObjectInterpolateCoordinate_ff ==
  {From(\h1F00, Leaf(2, M16X16)), From(\h1F00, Leaf(2, M8)), From(\h1F00, Leaf(2, M8X16)),
   From(\h1F04, Leaf(2, M8X16)), From(\h1F04, Leaf(3, M8)), From(\h1F00, Leaf(3, M8X16)),
   From(\h1F04, Leaf(3, M8X8))}

SpriteReserveAllocation_ff ==
  {From(\h1F04, Leaf(2, M8X16)), From(\h1F20, Leaf(2, M8X16)), From(\h1F40, Leaf(2, M8X16)),
   From(\h1F04, Leaf(3, M8X16)), From(\h1F10, Leaf(3, M8X16)), From(\h1F20, Leaf(3, M8X16)),
   From(\h1F04, Leaf(3, M8X8))}

FieldProbeLeaderPosition_ff ==
  {From(\h1F00, Leaf(2, M16X16)), Within(\h1F00, \h1FFD, Leaf(2, M8)), Leaf(2, M8X16),
   From(\h1F00, Leaf(2, M8X16)), From(\h1F04, Leaf(2, M8X16)), From(\h1F10, Leaf(2, M8X16)),
   From(\h1F30, Leaf(2, M8X16)), From(\h1F40, Leaf(2, M8X16)), From(\h1F00, Leaf(3, M8X16)),
   From(\h1F04, Leaf(3, M8X16)), From(\h1F10, Leaf(3, M8X16)), From(\h1F20, Leaf(3, M8X16)),
   From(\h1F30, Leaf(3, M8X16)), From(\h1F50, Leaf(3, M8X16))}

WriteSoundDriverMode_ff ==
  {Leaf(2, AnyWidth), From(\h1F20, Leaf(2, M8X16)), From(\h1F20, Leaf(3, M8X16)),
   Pushed(2, AnyWidth), Pushed(3, AnyWidth), Music(3, AnyWidth)}

SoundDriverRead08_ff ==
  {Leaf(2, AnyWidth), From(\h1F20, Leaf(2, M8X16)), Leaf(3, AnyWidth), Pushed(2, AnyWidth),
   From(\h1F40, Pushed(2, M8X16)), Pushed(3, AnyWidth)}

FieldFlagAnimationRow_ff ==
  {Leaf(2, AnyWidth), Leaf(2, M8X16), From(\h1F20, Leaf(2, M8X16)), Leaf(3, AnyWidth),
   Pushed(2, AnyWidth), Pushed(2, M8X16), Pushed(3, AnyWidth), Pushed(3, X16)}

ActorResetTransientState_ff ==
  {Leaf(2, AnyWidth), Leaf(2, M8), Leaf(3, AnyWidth), Leaf(3, M8), Pushed(2, AnyWidth),
   Pushed(2, M8X16), Pushed(3, AnyWidth), Pushed(3, M8), Pushed(3, M8X16)}

ActorRebuildSceneState_ff ==
  {Leaf(3, M8), Pushed(2, M8), Pushed(2, M8X16), Pushed(3, AnyWidth), Pushed(3, M16X16),
   Pushed(3, M8X16)}

BattleQueueSpriteTiles_ff ==
  {Pushed(3, M16X16)}

BattleQueueSmallSpriteTiles_ff ==
  {Leaf(2, X16), Leaf(3, AnyWidth), Leaf(3, M8X16), Pushed(3, AnyWidth), Pushed(3, M16X16),
   Pushed(3, M8X16)}

BattleExpandActionMessage_ff ==
  {Leaf(2, AnyWidth), Leaf(2, M8), Leaf(2, M8X16), Leaf(2, X16), Leaf(3, AnyWidth), Leaf(3, M8),
   Leaf(3, X16), Pushed(3, AnyWidth), Pushed(3, M8X16)}

MenuInitializeDisplayState_ff ==
  {Leaf(3, M8X16), Pushed(2, M8), Pushed(2, M8X16), Pushed(3, AnyWidth), Pushed(3, M8),
   Pushed(3, M8X16)}

MenuBuildMainWindows_ff ==
  {Pushed(2, M8X16), Pushed(3, M8X16)}

MenuUseSelectedSpell_ff ==
  {Pushed(2, M16X16), Pushed(2, M8X16), Pushed(3, AnyWidth), Pushed(3, M8X16)}

MenuReplaceCursor_ff ==
  {Leaf(2, M8X16), Pushed(2, M16), Pushed(2, M8X16), Pushed(3, M8X16)}

MenuAnimateListDown_ff ==
  {From(0, Leaf(2, M8X16)), Pushed(2, M16X16), Pushed(2, M8), Pushed(2, M8X16),
   From(0, Pushed(2, M8X16)), Pushed(3, AnyWidth)}

FieldLocateCell_ff ==
  {From(0, Pushed(2, M16X16)), From(0, Pushed(2, M8X16)), From(0, Pushed(2, X16)),
   From(0, Pushed(3, M8X16))}

FieldResolveEventValue_ff ==
  {From(0, Leaf(2, AnyWidth)), From(0, Leaf(2, M16)), From(0, Leaf(2, M8X16)),
   From(0, Leaf(3, AnyWidth)), From(0, Leaf(3, M8X16)), From(0, Pushed(2, AnyWidth)),
   From(0, Pushed(2, M8X16)), From(0, Pushed(3, AnyWidth)), From(\hC, Pushed(3, AnyWidth)),
   From(0, Pushed(3, M8X16))}

WorldMapBindResourcePointers_ff ==
  {From(0, Leaf(2, AnyWidth)), From(\h200, Leaf(2, M16X16)), From(0, Leaf(2, M8)),
   From(0, Leaf(2, M8X16)), From(0, Pushed(2, M8)), From(0, Pushed(2, M8X16)),
   From(0, Pushed(2, X16))}

WorldMapResetSceneState_ff ==
  {From(0, Leaf(2, M16)), From(0, Leaf(2, M8)), From(0, Leaf(2, M8X16)),
   From(0, Pushed(2, AnyWidth)), From(0, Pushed(2, M16X16)), From(0, Pushed(2, M8X16)),
   From(\h1F00, Pushed(2, M8X16)), From(\h1F00, Pushed(2, X16))}

WorldMapResolveAngleScale_ff ==
  {From(0, Leaf(2, AnyWidth)), From(0, Leaf(2, M8)), From(0, Leaf(2, M8X16)),
   From(\h1F00, Leaf(2, M8X16)), From(0, Pushed(2, M16X16)), From(\h4, Pushed(2, M8)),
   From(\h1F00, Pushed(2, M8X16)), From(\h1F00, Pushed(2, X16)), From(\h6, Pushed(3, M8))}

BattleEffectChangeDisplay_ff ==
  {From(\h1F00, Leaf(3, AnyWidth)), From(\h1F00, Pushed(2, M8X16)), From(\h1F00, Pushed(3, X16))}

SystemDivide24ByByte_ff ==
  {From(\h1F00, Leaf(2, AnyWidth)), From(\h1F00, Leaf(2, M16X16)), From(\h1F00, Leaf(2, M8X16)),
   From(\h1F00, Leaf(3, M8X16)), From(\h1F00, Pushed(2, M16X16)), From(\h1F00, Pushed(2, M8X16))}

BattleEffectSetDrawState_ff ==
  {From(\h1F00, Leaf(2, M8X16)), From(\h1F00, Pushed(2, M8X16))}

BattleEffectSetDelayFive_ff ==
  {From(\h1F00, Leaf(2, M8X16)), From(\h1F00, Pushed(2, M8X16)), From(\h1F00, Pushed(3, M8X16))}

BattleConfigureLayerColorDma_ff ==
  {From(\h1F00, Leaf(2, M8X16)), From(\h1F02, Leaf(2, M8X16)), From(\h1F00, Leaf(3, M8X16))}

BattleEffectClearBackgroundUploadRequest_ff ==
  {From(\h1F00, Leaf(2, M8X16)), From(\h1F02, Leaf(2, M8X16)), From(\h1F00, Leaf(3, M8X16)),
   From(\h1F00, Pushed(2, M8X16)), From(\h1F06, Pushed(2, M8X16))}

BattleEffectRefreshTurnDisplay_ff ==
  {From(\h1F00, Leaf(2, M8X16)), From(\h1F04, Leaf(2, M8X16)),
   Within(\h1F00, \h1FFB, Leaf(3, M8X16)), From(\h1F00, Pushed(2, M8X16)),
   From(\h1F02, Pushed(2, M8X16)), From(\h1F06, Pushed(2, M8X16)), From(\h1F08, Pushed(2, M8X16)),
   From(\h1F0A, Pushed(2, M8X16)), Within(\h1F0A, \h1FFB, Pushed(3, M8X16)),
   Within(\h1F10, \h1FFB, Pushed(3, M8X16))}

BattleAllocateEnemyPalette_ff ==
  {From(\h1F00, Leaf(2, M8X16)), From(\h1F06, Leaf(2, M8X16)),
   Within(\h1F00, \h1FFB, Leaf(3, M8X16)), Within(\h1F02, \h1FFB, Leaf(3, M8X16)),
   Within(\h1F04, \h1FFB, Leaf(3, M8X16)), From(\h1F10, Pushed(2, M8)),
   From(\h1F10, Pushed(2, M8X16)), From(\h1F16, Pushed(2, M8X16)), From(\h1F0A, Pushed(2, M8X8)),
   Within(\h1F02, \h1FFB, Pushed(3, M8X16)), Within(\h1F05, \h1FFB, Pushed(3, M8X16)),
   Within(\h1F12, \h1FFB, Pushed(3, M8X16)), From(\h1F20, Pushed(3, M8X16))}

BattleReleaseDefeatedEnemies_ff ==
  {Within(\h1F10, \h1FFB, Leaf(2, M8X16)), Within(\h1F10, \h1FFB, Leaf(3, AnyWidth)),
   Within(\h1F00, \h1FFB, Leaf(3, M8X16)), Within(\h1F02, \h1FFB, Leaf(3, M8X16)),
   Within(\h1F10, \h1FFB, Pushed(2, M8X16)), Within(\h1F04, \h1FFB, Pushed(3, M8X16)),
   Within(\h1F08, \h1FFB, Pushed(3, M8X16))}

SavePackState_ff ==
  {From(\h1F10, Leaf(2, M16X16)), From(\h1F10, Pushed(2, M16X16)), From(\h1F10, Pushed(2, M8X16)),
   From(\h1F10, Pushed(3, M16X16)), Within(\h1F10, \h1FFB, Pushed(3, M8X16)),
   From(\h1F10, Pushed(3, M8X16))}

TitleLoadSaveSelectionBits_ff ==
  {From(\h1F10, Leaf(2, M8X16)), From(\h1F10, Leaf(3, X16)), From(\h1F10, Pushed(2, M8X16)),
   From(\h1F10, Pushed(3, M8X16)), From(\h1F10, Pushed(3, X16))}

SaveRunMenuActions_ff ==
  {From(\h1F10, Leaf(2, M8X16)), From(\h1F10, Pushed(2, M16X16)),
   Within(\h1F10, \h1FFB, Pushed(2, M8X16)), From(\h1F10, Pushed(2, M8X16))}

MenuRestoreAlternateSelection_ff ==
  {From(\h1F10, Leaf(2, M16X16)), From(\h1F10, Leaf(2, M8X16)), From(\h1F10, Pushed(2, M16X16)),
   From(\h1F10, Pushed(2, M8X16))}

MenuResetSessionRecords_ff ==
  {From(\h1F10, Leaf(2, M8X16)), Within(\h1F10, \h1FFD, Leaf(2, M8X16)),
   From(\h1F10, Pushed(2, M8X16)), From(\h1F10, Pushed(3, M8X16))}

MenuOpenItemSelection_ff ==
  {From(\h1F20, Leaf(2, M8X16)), Within(\h1F20, \h1FFB, Leaf(3, M16X16)),
   Within(\h1F00, \h1FFB, Leaf(3, M8X16)), Within(\h1F20, \h1FFB, Leaf(3, M8X16)),
   From(\h1F10, Pushed(2, M8X16)), From(\h1F20, Pushed(2, M8X16)), From(\h1F10, Pushed(3, M8X16)),
   Within(\h1F20, \h1FFB, Pushed(3, M8X16))}

MenuDrawWindowTopBottomEdge_ff ==
  {From(\h1F20, Leaf(2, M16X16)), From(\h1F20, Leaf(2, M8)), From(\h1F20, Leaf(2, M8X16)),
   From(\h1F20, Pushed(2, M8X16)), From(\h1F40, Pushed(3, AnyWidth))}

ActorInitializeSpawnSlot_ff ==
  {From(\h1F40, Leaf(2, AnyWidth)), From(\h1F20, Leaf(2, M8X16)), From(\h1F40, Leaf(3, AnyWidth)),
   From(\h1F20, Leaf(3, M8X16))}

FieldWriteOamHorizontalPair_ff ==
  {From(\h1F20, Leaf(2, M8X16)), From(\h1F20, Leaf(3, M8)),
   Within(\h1F20, \h1FFD, Pushed(2, AnyWidth)), From(\h1F20, Pushed(3, M8X16))}

WorldMapConfigurePrimaryView_ff ==
  {From(\h1F20, Leaf(2, M8X16)), From(\h1F20, Pushed(2, M8X16))}

FieldReadBankedStreamByte_ff ==
  {From(\h1F20, Leaf(2, M8X16)), From(\h1F20, Leaf(3, M16X16)), From(\h1F20, Leaf(3, M8X16)),
   From(\h1F20, Pushed(2, M8X16)), From(\h1F20, Pushed(3, M8X16))}

BattleEffectBeginHdmaMode7_ff ==
  {From(\h1F20, Leaf(2, M8X16)), From(\h1F20, Pushed(3, M8X16))}

BattleHdmaStopMode9_ff ==
  {From(\h1F20, Leaf(2, M16X16)), From(\h1F20, Leaf(2, M8X16)), From(\h1F20, Pushed(2, M8X16)),
   From(\h1F20, Pushed(3, M16X16)), From(\h1F20, Pushed(3, M8)), From(\h1F20, Pushed(3, M8X16))}

BattleSetPartyCommandBytes_ff ==
  {From(\h1F20, Leaf(2, M8X16)), From(\h1F20, Leaf(3, M8X16)), From(\h1F20, Pushed(2, M8X16)),
   From(\h1F20, Pushed(3, M8X16)), From(\h1F20, Pushed(3, X16))}

ActorPrepareSecondaryScript_ff ==
  {From(\h1F20, Leaf(2, M8)), From(\h1F20, Pushed(2, M8X16))}

FieldTryLeaderLowerStep_ff ==
  {From(\h1F20, Leaf(2, M8)), From(\h1F20, Pushed(2, M8)), From(\h1F20, Pushed(2, M8X16)),
   From(\h1F20, Pushed(3, AnyWidth)), From(\h1F20, Pushed(3, M8X16))}

FieldClaimFacingActor_ff ==
  {From(\h1F20, Pushed(2, M8X16)), From(\h1F20, Pushed(3, M8X16))}

FieldUpdateScreenEffects_ff ==
  {From(\h1F20, Leaf(2, M8)), From(\h1F20, Pushed(2, M8)), From(\h1F20, Pushed(3, M8))}

ActorCheckWestActionLimit_ff ==
  {From(\h1F20, Leaf(2, M16X8)), From(\h1F20, Leaf(2, M8)), From(\h1F20, Pushed(2, M16X8)),
   From(\h1F20, Pushed(2, M8X16))}

WorldMapApplyEntryPosition_ff ==
  {From(\h1F20, Leaf(2, M16X16)), From(\h1F20, Pushed(2, M8X16))}

WorldMapBuildScene_ff ==
  {From(\h1F20, Pushed(2, AnyWidth)), From(\h1F20, Pushed(2, M8X16)),
   From(\h1F20, Pushed(3, M8X16))}

FieldRunLoop_ff ==
  {Within(\h1F20, \h1FFF, Scene(0, AnyWidth))}

SystemInitializeVideoMemory_ff ==
  {Within(\h1F20, \h1FFD, Leaf(2, AnyWidth)), Within(\h1F20, \h1FFD, Leaf(2, M16X16)),
   Within(\h1F20, \h1FFD, Pushed(2, M8X8)), From(\h1F20, Pushed(3, M8X16))}

ClearGameFile_ff ==
  {Within(\h1F20, \h1FFD, Leaf(2, M8X8)), Leaf(3, M8), Within(\h1F20, \h1FFD, Pushed(2, M8X16)),
   From(\h1F20, Pushed(3, M8X16)), From(\h1F20, Pushed(3, M8X8)),
   Within(\h1F20, \h1FFD, Owned(2, M8)), Owned(3, AnyWidth), From(\h1F20, Owned(3, M8)),
   From(\h1F20, Owned(3, M8X8))}

FieldTriggerUpdateWithServices_ff ==
  {Leaf(2, M8), Leaf(3, M8), Owned(2, AnyWidth), Within(\h1F20, \h1FFD, Owned(2, M8)),
   Owned(3, AnyWidth)}

TitleFindActiveSprite_ff ==
  {Within(\h1F20, \h1FFD, Leaf(2, AnyWidth)), Leaf(2, M16X16),
   Within(\h1F20, \h1FFD, Leaf(2, M16X16)), Within(\h1F20, \h1FFD, Leaf(2, M8X16)),
   From(\h1F20, Leaf(3, AnyWidth)), Leaf(3, M16X16), Leaf(3, M8X16),
   Within(\h1F20, \h1FFD, Pushed(2, M8X16))}

FieldFindWindowActor_ff ==
  {Leaf(2, M8X16), From(\h1F20, Leaf(2, M8X16)), Leaf(3, M8X16), Pushed(2, M8X16),
   From(\h1F20, Pushed(2, M8X16)), Pushed(3, M8), Pushed(3, M8X16), From(\h1F20, Pushed(3, M8X16))}

WorldMapRunGroupScene1_ff ==
  {From(\h1F20, Leaf(2, M16X16)), From(\h1F20, Leaf(2, M8X16)), From(\h1F20, Pushed(2, M8X16))}

WorldMapBuildCircularWindow_ff ==
  {From(\h1F20, Leaf(2, M16X16)), From(\h1F20, Leaf(2, M8)), From(\h1F20, Leaf(2, M8X16)),
   Pushed(2, M8X16), From(\h1F24, Pushed(2, M8X16)), From(\h1F20, Pushed(3, M8X16))}

WorldMapSelectSlopedWindowRecord_ff ==
  {From(\h1F20, Leaf(2, M8X16)), From(\h1F20, Pushed(2, M16X16)), From(\h1F20, Pushed(2, M8X16)),
   From(\h1F20, Pushed(3, M8X16))}

WorldMapSubmitPhasedSceneWindow_ff ==
  {From(\h1F20, Leaf(2, M8X16)), From(\h1F20, Pushed(2, M8X16))}

FieldResumeFrame_ff ==
  {Within(\h1FFF, \h1FFF, Scene(0, M8))}

FieldMarkVisibleActorCells_ff ==
  {From(\h1F00, Leaf(2, M8X16)), From(\h1F00, Leaf(3, M8X16)), From(\h1F00, Pushed(2, M8X16))}

FieldAdvancePaletteCycles_ff ==
  {From(\h1F00, Leaf(2, AnyWidth)), From(\h1F20, Leaf(2, AnyWidth)), From(\h1F00, Leaf(2, M16)),
   From(\h1F00, Leaf(2, M8)), From(\h1F00, Leaf(2, M8X16)), From(\h1F00, Leaf(2, X16)),
   From(\h1F00, Leaf(3, AnyWidth))}

CaveClearVisitedCells_ff ==
  {From(\h1F00, Leaf(2, M16X16)), From(\h1F00, Leaf(2, M8)), From(\h1F00, Leaf(2, M8X16)),
   From(\h1F00, Leaf(2, X16))}

CaveDrawTileBlock_ff ==
  {Leaf(2, AnyWidth), From(\h1F00, Leaf(2, M8X16)), From(\h1F00, Leaf(2, X16)), Pushed(2, AnyWidth),
   From(\h1F20, Pushed(3, AnyWidth))}

SelectScreenFadeOut_ff ==
  {Leaf(3, AnyWidth), Pushed(2, AnyWidth), Pushed(3, AnyWidth)}

BattleAccumulateActionAdjustment_ff ==
  {Leaf(2, AnyWidth), Within(\h1F20, \hFFFF, Leaf(2, AnyWidth)), Leaf(3, AnyWidth),
   Within(\h1F20, \hFFFF, Leaf(3, AnyWidth)), Within(\h1F20, \hFFFF, Pushed(2, AnyWidth)),
   Within(\h1F20, \hFFFF, Pushed(3, AnyWidth))}

TextPrepareWindowWithServices_ff ==
  {Leaf(2, AnyWidth), Leaf(3, AnyWidth), Pushed(2, AnyWidth),
   Within(\h1F10, \hFFFF, Pushed(2, AnyWidth)), Pushed(2, M16X16), Pushed(2, M8X16),
   Pushed(3, M8X16)}

MenuBuildEquipmentAttributes_ff ==
  {Pushed(2, M8X16), Pushed(3, M8X16)}

MenuDispatchDescriptionLayout_ff ==
  {Leaf(2, M8X16), From(\h1F00, Leaf(2, M8X16)), Pushed(2, M16X16), Pushed(2, M8X16),
   From(\h1F00, Pushed(2, M8X16)), From(\h1F10, Pushed(2, M8X16))}

CapsuleAdvanceForm_ff ==
  {Leaf(2, M16X16), Leaf(2, M8X16), Pushed(2, M8X16)}

CapsuleStepFormEffectAngle_ff ==
  {Leaf(2, M16X16), Leaf(2, M8X16), Leaf(3, M8X16), Pushed(2, M8X16), Pushed(3, M8X16)}

MenuShopPreviewEquipment_ff ==
  {Leaf(2, M16X16), Leaf(2, M8X16), Pushed(2, M16X16), Pushed(2, M8X16)}

InventoryRemoveFlaggedEquipment_ff ==
  {Leaf(2, M16X16), Leaf(2, M8X16), Leaf(3, M8X16), Pushed(2, M16X16), Pushed(2, M8X16),
   Pushed(3, M8X16)}

MenuScrollWarpDestinationsUp_ff ==
  {Leaf(2, AnyWidth), Leaf(2, M16X16), Leaf(2, M8X16), Leaf(2, X16), Pushed(2, AnyWidth),
   Pushed(2, M8X16)}

MenuPrepareEquipmentList_ff ==
  {Leaf(2, M16X16), Leaf(2, M8X16), Leaf(2, X16), Pushed(2, AnyWidth),
   From(\h1F20, Pushed(2, M8X16)), Pushed(3, M8X16), From(\h1F20, Owned(2, M8X16))}

WorldMapBeginSceneColorFall_ff ==
  {From(\h1F20, Leaf(2, M16X16)), From(\h1F20, Leaf(2, M8X16)), From(\h1F20, Leaf(2, X16)),
   From(\h1F20, Pushed(2, M8X16))}

PokerPrepareHandRanks_ff ==
  {From(\h1F20, Leaf(2, M16X16)), From(\h1F20, Leaf(2, X16)), From(\h1F20, Pushed(2, M16X16)),
   From(\h1F20, Pushed(2, M8X16)), From(\h1F20, Pushed(2, X16))}

CardGameDrawRoundValues_ff ==
  {Pushed(2, AnyWidth), From(\h1F20, Pushed(2, M16X16)), From(\h1F20, Pushed(2, M8X16)),
   From(\h1F20, Pushed(2, X16))}

Routines ==
  UNION {UpdateActorSlots_ff, LoadItemRecord_ff, BattleGaugeBlock_ff, BattleGaugePanel_ff,
         BattlePortraits_ff, InventoryAdd_ff, SpriteSetTable_ff, ActorPrimaryUpdateWithChildren_ff,
         BattleEntry_ff, BattleMainLoop_ff, BattlePartyStatusGate_ff, BattleFlashActionActor_ff,
         BattleActionWindow_ff, BattleRenderMessage_ff, FieldLoadMapHeader_ff,
         FieldFindHeaderRecord_ff, ResolveSaveFileAddress_ff, LoadSong_ff,
         FieldCopyMetatileGraphics_ff, WorldMapPlane_ff, MenuItemIndex_ff, BattleEffectVelocity_ff,
         WorldProduct16By8_ff, FieldMarkObjectSlots_ff, MenuCopyImageRow256_ff,
         NmiTilemapUploads_ff, BattleColorsInit_ff, BattleEffectWindowBand_ff,
         BattleDriftRecords_ff, MenuTileGridFill_ff, NmiSpritesPaletteAndPads_ff,
         BattleEffectDelay_ff, BattlePlayEffect_ff, FieldRebuildSceneActors_ff,
         BattleEffectFindActorSlot_ff, BattleDefendAction_ff, ObjectInterpolateCoordinate_ff,
         SpriteReserveAllocation_ff, FieldProbeLeaderPosition_ff, WriteSoundDriverMode_ff,
         SoundDriverRead08_ff, FieldFlagAnimationRow_ff, ActorResetTransientState_ff,
         ActorRebuildSceneState_ff, BattleQueueSpriteTiles_ff, BattleQueueSmallSpriteTiles_ff,
         BattleExpandActionMessage_ff, MenuInitializeDisplayState_ff, MenuBuildMainWindows_ff,
         MenuUseSelectedSpell_ff, MenuReplaceCursor_ff, MenuAnimateListDown_ff, FieldLocateCell_ff,
         FieldResolveEventValue_ff, WorldMapBindResourcePointers_ff, WorldMapResetSceneState_ff,
         WorldMapResolveAngleScale_ff, BattleEffectChangeDisplay_ff, SystemDivide24ByByte_ff,
         BattleEffectSetDrawState_ff, BattleEffectSetDelayFive_ff, BattleConfigureLayerColorDma_ff,
         BattleEffectClearBackgroundUploadRequest_ff, BattleEffectRefreshTurnDisplay_ff,
         BattleAllocateEnemyPalette_ff, BattleReleaseDefeatedEnemies_ff, SavePackState_ff,
         TitleLoadSaveSelectionBits_ff, SaveRunMenuActions_ff, MenuRestoreAlternateSelection_ff,
         MenuResetSessionRecords_ff, MenuOpenItemSelection_ff, MenuDrawWindowTopBottomEdge_ff,
         ActorInitializeSpawnSlot_ff, FieldWriteOamHorizontalPair_ff,
         WorldMapConfigurePrimaryView_ff, FieldReadBankedStreamByte_ff,
         BattleEffectBeginHdmaMode7_ff, BattleHdmaStopMode9_ff, BattleSetPartyCommandBytes_ff,
         ActorPrepareSecondaryScript_ff, FieldTryLeaderLowerStep_ff, FieldClaimFacingActor_ff,
         FieldUpdateScreenEffects_ff, ActorCheckWestActionLimit_ff, WorldMapApplyEntryPosition_ff,
         WorldMapBuildScene_ff, FieldRunLoop_ff, SystemInitializeVideoMemory_ff, ClearGameFile_ff,
         FieldTriggerUpdateWithServices_ff, TitleFindActiveSprite_ff, FieldFindWindowActor_ff,
         WorldMapRunGroupScene1_ff, WorldMapBuildCircularWindow_ff,
         WorldMapSelectSlopedWindowRecord_ff, WorldMapSubmitPhasedSceneWindow_ff,
         FieldResumeFrame_ff, FieldMarkVisibleActorCells_ff, FieldAdvancePaletteCycles_ff,
         CaveClearVisitedCells_ff, CaveDrawTileBlock_ff, SelectScreenFadeOut_ff,
         BattleAccumulateActionAdjustment_ff, TextPrepareWindowWithServices_ff,
         MenuBuildEquipmentAttributes_ff, MenuDispatchDescriptionLayout_ff, CapsuleAdvanceForm_ff,
         CapsuleStepFormEffectAngle_ff, MenuShopPreviewEquipment_ff,
         InventoryRemoveFlaggedEquipment_ff, MenuScrollWarpDestinationsUp_ff,
         MenuPrepareEquipmentList_ff, WorldMapBeginSceneColorFall_ff, PokerPrepareHandRanks_ff,
         CardGameDrawRoundValues_ff}

\* Every entry is one the model can read: TLC checks the whole table.
ASSUME RoutineType ==
  \A r \in Routines :
    r.calls \in Protocols /\ r.frame \in {0, 2, 3} /\ r.widths \subseteq AnyWidth

\* An entry point that limits S reads its whole return frame from work RAM,
\* which ends at $1FFF: the S it accepts leave room for the frame above them.
ASSUME WindowsHoldFrames ==
  \A r \in Routines :
    /\ r.low \in 0 .. \hFFFF /\ r.high \in 0 .. \hFFFF
    /\ r.high < \hFFFF => r.low <= r.high /\ r.high + r.frame <= \h1FFF
=============================================================================

# SOUI-CEF: models, checks and proofs

SOUI-CEF puts a windowless Chromium (CEF 3029) into a SOUI user interface: a
widget, `SWebView`, asks CEF for a browser, paints what CEF paints, and forwards
the window's messages. This directory holds TLA+ modules that model its code,
TLC configurations that check them on small instances, and TLAPS proofs for all
instances. Paths below are relative to `src/`.

The widget, its handler and the engine run on one thread, CEF's UI thread, which is
the window's thread (scheme handlers and resource loads run on CEF's IO thread and
share nothing with them): CEF works when the message loop is idle (`SMsgLoopCef::OnIdle`,
`core/core.cc:23-29`). So no two statements of the C++ code interleave. What
interleaves are *calls*: the program's, the user's and the window's messages on one
side, and CEF's callbacks on the other, which come much later than the call they
answer, in an order the widget does not choose, and sometimes *inside* the call.
Each action of a module is one such call, with everything it calls in its turn.

## 1. Inventory

| part | code | state it keeps | operations |
|---|---|---|---|
| web view: browser lifecycle | `webview.cc`, `webview_handler.cc` | `m_strUrl`; handler: `m_refBrowser`, `m_posr`, `m_pMsgHandler`, `m_bPageLoaded` | `Open`, `Close`, `LoadURL`, navigation, `OnCreate`, `OnDestroy`, `url` attribute; `OnAfterCreated`, `OnBeforeClose`, `DoClose`, `OnAddressChange`, `OnLoadEnd`, `OnPreKeyEvent`, `OpenDevTools` |
| engine and CEF context | `core.cc`, `main_context*.cc`, `main.cc`, `main_window.cc` | `initialized_`, `shutdown_`, the global context, `browser_opened_` | `Initialize`, `Run`, `OnIdle`, `OnClose`, `Release`, `Shutdown` |
| off-screen painting and pop-ups | `webview.cc` | the bitmap, `draw_popup_`, `resize_popup_`, `popup_rc`, `original_popup_rect_`, `m_bBkgndDirty` | both `OnPaint`, `Draw`, `OnPopupShow`, `OnPopupSize`, `ApplyPopupOffset` |
| window state: size, visibility, focus | `webview.cc` | `first_show_`; what CEF was told | `OnShowWindow`, `OnSetFocus`, `OnKillFocus`, `OnSize`, `GetViewRect` |
| mouse input | `webview.cc` | capture, `mouse_rotation_`, `mouse_tracking_`, `last_click_*`, `last_mouse_down_on_view_` | `SendMouseEvent`, `SendCaptureLostEvent` |
| keyboard input | `webview.cc`, `util_win.cc` | none | `SendKeyEvent`, `GetCefKeyboardModifiers` |
| input method editor | `osr_ime_handler_win.cc`, `webview.cc` | `cursor_index_`, `composition_range_`, `composition_bounds_` | the WM_IME_* handlers, `GetCompositionInfo`, `MoveImeWindow`, `ChangeCompositionRange` |
| `live://` scheme handler | `customer_scheme.cc` | per request: `data_`, `mime_type_`, `offset_` | `Create`, `ProcessRequest`, `GetResponseHeaders`, `ReadResponse`, `Cancel` |
| coordinates | `geometry_util.cc` | none | `LogicalToDevice`, `DeviceToLogical` |
| resource loads | `cef_resource_manager.cc`, in `libcef_dll_wrapper/`; `resource_util.cc` | the list of providers; per load a `RequestState` with iterators into it | `AddProvider`, `Remove*`, the destructor, `OnBeforeResourceLoad`, `Continue`, `Stop`, `GetResourceHandler`; what three kinds of provider answer, and when |
| resources and dumps | `resource_util.cc` | none | string building, `LoadBinaryResource` |
| application objects, render process | `client_app*.cc`, `webprocess/` | none after start-up | command line, crash dump |
| CEF, SOUI, Windows, IMM | headers under `cef_3029/`; not in the repository | | external |

**How they interact.** A SOUI layout creates the widget; `OnCreate` calls `Open`,
which asks CEF for a browser whose `CefClient` is the widget's handler. The
handler outlives the widget (CEF holds references to it) and knows it through two
raw pointers, set by `Open` and cleared by `Close`. The handler also owns a
`CefResourceManager` and hands it every resource load (`webview_handler.cc:483-502`).
Each browser that arrives or
leaves is counted in the global context. CEF's paint, pop-up, IME and size
callbacks reach the widget only while those pointers are set; the widget's calls
reach CEF only through `CHECK_CEF_BROWSER_HOST` (`webview.cc:11-24`), that is,
while there is a browser and the widget was visible once. Which browser that is
changes: every one that arrives at the handler, a second `Open`'s or DevTools'
included, is stored over the one before (`webview_handler.cc:304`, finding 1), and all
later calls go to it. Each module of one widget has this. The engine starts CEF
before the window and shuts it down after the loop, whatever CEF still owes.

**What is hard, and what would make each part correct.**

* *Lifecycle*: the reference to a browser is set by a callback, so `Open`, `Close`
  and destruction race with it; DevTools share the handler; the handler outlives
  the widget. Correct: no dangling pointer, no stale reference, exact counting,
  one browser to a view, closing reaches it, each new browser loads the
  remembered address.
* *Engine*: the loop that pumps CEF ends before CEF is finished. Correct: nobody
  counts in a deleted context; closing the window always ends in `Release`, or, after
  a failed start, at an assertion.
* *Painting*: one bitmap for the view and its pop-up, paints nested in calls, a
  background that is out of date, a pop-up that is moved, a hidden view that CEF does
  not paint. Correct: the flag tells
  what the bitmap holds; nothing is painted after `Close`; pop-ups lie in the
  view and the mouse finds them; a hidden pop-up goes away.
* *Window state*: nothing is repeated for a browser that arrives later, sizes are
  rounded twice, and `OnSize` keeps quiet when the bitmap has the size already.
  Correct: a visible view is not hidden in CEF, a focus is not invented, and the
  bitmap comes to fit.
* *Mouse*: presses that are withheld, a capture given back too early, message
  times that wrap. Correct: nothing left over with no button held; clicks counted
  as made.
* *IME*: IMM sends any part of a composition or none; CEF's ranges come late.
  Correct: underlines cover the text once, the target is marked, the candidate
  window is put at a rectangle that exists, no composition is left behind.
* *Scheme handler*: several requests, cut into pieces and cancelled at will.
  Correct: every response whole, in order, of the right type; every request ends.
* *Resource loads*: a load wanders from provider to provider in tasks, holding
  iterators into a list that is added to and removed from meanwhile; providers
  answer after they were removed, and after the manager is gone. Correct: no
  iterator dangles; nobody is skipped, asked twice or out of turn; a cancelled
  provider has no say; every load goes on and every removed provider goes away.

The hazards with their lines are listed in `PROJECT.json`.

## 2. Modules

| module | models | composed with |
|---|---|---|
| `WebViewLifecycle` | any number of views and browsers, the program and CEF around them | |
| `BrowserSlot` | abstract: a view is a slot for one browser | implemented by `WebViewLifecycle` |
| `Engine` | `wWinMain`, the loop, the context, `CefShutdown` | extends `WebViewLifecycle` and takes its actions as the loop's work |
| `Geometry` | the conversions, in integers | used by `OsrView`, `WindowSync` |
| `OsrView` | painting, pop-ups and visibility of one widget and its handler's browsers | |
| `WindowSync` | size, visibility and focus of one widget against its browsers' idea of them | |
| `MouseInput` | buttons, clicks, capture of one widget, and what each browser was told | |
| `ImeComposition` | one widget's compositions in the pages of its browsers | |
| `SchemeHandler` | all requests to `live://` addresses | |
| `ByteStream` | abstract: a response arrives in order and whole | implemented by `SchemeHandler` |
| `ResourceManager` | `CefResourceManager`, its providers and all loads of one handler | |
| `ProviderWalk` | abstract: a load walks the providers in their order and ends once | implemented by `ResourceManager` |
| `MC*` | constants for TLC | |
| `*_proofs` | theorems about the module they are named for | `Engine_proofs` extends `WebViewLifecycle_proofs` |

Variables keep the names of the C++ members they stand for; variables without a
C++ name are what CEF, Windows, SOUI or the user knows, or history variables, and
are said to be so where they are declared. Actions have the name of the function
they model. Definitions such as `Open_Unguarded` stand directly before the
definition they vary: they are ways to get the code wrong, used to see that a
property notices (the pairs are in `PROJECT.json`, "mutants").

**WebViewLifecycle.** `phase[b]` is a browser's life as CEF sees it: asked for
(`CreateBrowser`), live (`OnAfterCreated`), closing (`CloseBrowser` called, or the
page closed itself), gone (`OnBeforeClose`). `client[b]` is the handler it was made
with and `inspects[b]` marks DevTools browsers. A handler is named by the view it
belongs to. `m_posr` and `m_pMsgHandler` hold a view or `NULL`, so that a handler
might point to the wrong widget or one that is gone. `browser_opened_` is not
initialised in the constructor (`main_context_impl.cc:56-62`): the model starts it
from any integer of `InitialCounts`. `AwaitCreated` says that the program is
careful: it neither opens, closes nor destroys a view while a browser is on its
way. `DevToolsUsed` says whether Shift+F12 is ever pressed. `Navigate` stands for
`GoBack`, `GoForward`, `Reload`, `StopLoad` and `ExecJavaScript`, which leave the
widget's own state alone.

**Engine.** `engine` follows `wWinMain`: `Initialize` (with `CefInitialize`
succeeding or not, which `core.cc:163` ignores), `Run`, the loop, `Release`.
`WindowUp` lets the lifecycle's program steps happen while the window exists,
`DoMessageLoopWork` its CEF steps while the loop runs, and `CefShutdown` the last
callbacks. `FinalMessage` frees the widgets. After a failed start CEF gives no
browsers, and `Shutdown` may stop the program at its `DCHECK(initialized_)`
(`main_context_impl.cc:177`), which a debug build has and a release build has not:
the state "aborted".

**OsrView.** The bitmap is known by what was copied into it last ("view", "popup"
or "none"), the screen by what was drawn since the view was last drawn.
`Invalidate` may call `OnPaint` later or inside the call; painting the view asks
for the pop-up, which may also come at once. That is why painting is a set of
results over a record (`OnPaintResults`) instead of a state change. `hidden` are the
browsers that last heard `WasHidden(true)` (`webview.cc:369`); they paint nothing
(`cef_browser.h:575-577`). Two kinds of browsers share `m_refBrowser`: `Windowless`
ones, which paint into the widget, and DevTools, which has a window of its own.
A browser that goes with its pop-up up says nothing of it; `popup_shown` keeps it
until the next browser arrives.

**WindowSync.** `hidden`, `focus` and `view_size` are what CEF knows;
`resize_asked` and `paint_due` are what it owes, each per browser, of which there may
be several (as in `OsrView`). A widget may be told it is shown while a parent keeps
it invisible, and SOUI may refuse it the focus that `OnShowWindow` asks for and tells
CEF of (`webview.cc:371-374`); the history variable `refused` says so. `painter`, another one, is
who painted the bitmap. `overtaken`, the third: the widget was resized while CEF laid
out for another size, and `OnSize` (`webview.cc:267`) did not call `WasResized`,
because the bitmap had the new size already or there was no host to call.

**MouseInput.** `held` is what the user holds, `cef_down[b]` what browser `b` was told,
`chain` the multiple click the user is making. Positions are those that differ
for the code: in the view or not, near the first click or not, over the pop-up or
not. Message times wrap at `HalfRange` (2^31 in Windows).

**ImeComposition.** `node` is the composition in the stored browser's page, `node_in`
all browsers whose page has one, and `replaced` (history) those that lost their place
in the handler while they had it. A composition is its length, its target, its clauses and its
cursor, any of which IMM may leave out. The candidate window is at the rectangle
of an index. The selection range sent along is left out, as are `is_composing_`
and the caret, which only functions without a caller use.

**SchemeHandler.** One record of fields to each request, in separate functions.
Bodies are constants; only reading them in pieces is modelled byte by byte.

**ResourceManager.** A provider is known by its number, in the order of addition;
`before` is the order of the list, and an entry that was deleted keeps its place in
it and is no longer `InList`. `stage[l]` says who owns a load's `RequestState`: a
`Request` given to a provider, a posted task, or nobody. Tasks run in the order
they were posted; the model lets any posted one run next, which allows more. A
provider of kind "immediate" answers inside `OnRequest`
(`BinaryResourceProvider`, `RequestDumpResourceProvider`, `ContentProvider`), a
"directory" after a file was opened on another thread, an "archive" after it was
loaded, for all loads that waited at once. `visited`, `offered` and `cancelled` are
history variables, dropped with `GetResourceHandler` to keep the states few.
`ProviderWalk` is what a user of the manager sees: who is there to be asked, whose
turn it is, what each load waits for. It has no list, no entries that are kept only
for iterators, no tasks and no kinds of provider; an entry whose deletion is pending
is simply gone. The manager is modelled as the program uses it through `SWebViewHandler`
(`webview_handler.cc:119`), although CEF does not reach it there: `GetRequestHandler`
is not overridden (`webview_handler.h:154-160`), and nothing adds the two providers
the program defines (`resource_util.cc:176`, `main_context_impl.cc:88`). What is
shown is what the class promises to whoever completes that.

## 3. Runs

| run | instance | shows |
|---|---|---|
| `LifecycleCareful` | 2 views, 3 browsers, 1 address, careful, no DevTools, fairness | a reference is to a browser of its own view; the view implements `BrowserSlot`; `Close` reaches the browser; destroyed views lose theirs; the counter falls back |
| `LifecycleDevTools` | 1 view, careful, DevTools | *violation*, finding 1 |
| `Engine` | 1 view, 3 browsers, 1 address, DevTools, careless program, two start values of the counter, fairness | counting, references, pointers and first address are right in every order of calls and callbacks, from start to `Release`; callbacks find the context; closing leads to `Release` (after a failed start, or to the assertion) |
| `EngineExit` | 1 view, no DevTools | *violation*, finding 2 |
| `OsrView` | 144 dpi, 2 windowless browsers and DevTools, 1 size, 1 pop-up, a 9 x 9 grid of points, fairness | flag, bitmap, placing, mouse offset, a hidden pop-up's disappearing, a visible view's appearing |
| `OsrPopupPlace` | the same browsers, 2 sizes, 4 pop-ups | *violation*, finding 3 |
| `SchemeHandler` | 2 requests, 4 addresses, bodies of 3 and 2 bytes, reads of 1 to 4 | responses whole and typed, `ByteStream` implemented, requests end |
| `ImeComposition` | 2 browsers that replace each other, up to 3 characters, symmetry | underlines, target, candidate window, composition node |
| `MouseInput` | 2 browsers that replace each other, 2 buttons, 3 positions, 2 pop-up states, 6 ticks, symmetry | quiet without buttons; click counts |
| `WindowSync` | 144 dpi, 2 windowless browsers and DevTools, 2 sizes, fairness | visibility, focus, size |
| `ResourceManager` | 2 loads, 3 providers (archive, directory, immediate), orders 2, 1, 2, two with the same identifier, fairness | iterators, order, cancelling, a load that is held is owed an answer (`LoadsAreOwed`), `ProviderWalk` implemented, loads and removals that end |
| `ResourceManagerForgotten` | the same | *violation*, finding 4 |

The type invariants are proved for every instance (section 4), so the runs spend their
time on the other properties.

**Bounds and why they are enough.** Two views show that handlers do not mix; three
browsers are one more than a view should have, plus DevTools, or a browser closing,
one arriving and one DevTools. The careless program is run with one view, in the
engine: a handler touches only its own widget, which is proved for any number of views
(`ReferencesValid`, `DelegatesValid`). One address suffices where only "remembered or
empty" matters. In the modules of one widget two browsers of `Open`'s can replace each
other and a third one be DevTools; where both kinds act alike (mouse, IME) two are
enough. The scale is 150 per cent because rounding is lossy there, and the sizes are
the empty one and one that does not survive rounding. `OsrView` paints with one size
and a pop-up that hangs over two edges of it; where other pop-ups are placed is what
`OsrPopupPlace` looks at and `PopupIsInView` and `PopupIsAtTop` prove of all. Reads of
one to four bytes end before, at and behind the end of both bodies. Three characters
are the least with a target strictly inside the text. A clock of six ticks around zero
(`HalfRange`) with clicks that are multiple within the same tick meets zero, wrap-around
and both sides of the limit; other limits are covered by the proof. `MaxClicks` bounds
the click count, since a user may click for ever.
Two loads and three providers are the least with a load that
leaves an entry another one keeps alive, and with an entry inserted before one of a
pair of equal order; one removal takes two entries and one a single entry.
Deadlock checking is off only where the system may really stop: when all
browsers of the model are used up, all requests are served, the engine is
released, or the loads and providers of the model are used up.

**Fairness and why it is justified.** Always weak, on what the platform does
and never on the user, the program or a page. `WebViewLifecycle`: CEF answers every
creation and every close, as `cef_browser.h` and `cef_life_span_handler.h` say,
because the loop keeps running and its idle handler keeps pumping CEF. `Engine`:
`wWinMain` is straight-line code, the destroyed window's last message and WM_QUIT
are processed, and `CefShutdown` works off what is left. `OsrView`, `WindowSync`:
CEF paints what it was asked to paint, unless the browser is hidden, and asks for a
size after `WasResized` (`cef_browser.h:565-577`), and the window repaints what it
invalidated, in `OsrView` only while the widget is visible.
`SchemeHandler`: CEF carries on every request it started. `ResourceManager`: a task
that was posted to the IO thread or the FILE thread runs in the end; nobody has to
add, remove or load anything.

**Properties that need a word.**

* `NewBrowserLoadsRememberedUrl` is about order: the handler must store the new
  browser *before* it tells the widget, whose `LoadURL` goes to the stored one.
* `ImplementsSlot` needs the careful program. Without it, `Open` twice before
  `OnAfterCreated` makes two browsers and forgets one (`webview.cc:194` looks at a
  reference a later callback sets). No document forbids that, so it is not listed
  as a finding but as the assumption `AwaitCreated`.
* `CloseLeadsToRelease` lets a failed start end at the assertion
  `DCHECK(initialized_)` (`main_context_impl.cc:177`). That it is reached is a
  disagreement of the code with its own assertion: `core.cc:163` ignores what
  `MainContextImpl::Initialize` answers, and `Release` calls `Shutdown` all the same.
  It takes one failure and a straight line of calls to see, so no run is kept for it.
* `HiddenPopupDisappears` and `ViewReachesScreen` are about the browser the handler
  has stored, while the view is visible; one that was replaced is not asked to paint
  any more. They have a precondition: if the background is out of date, a repaint is
  pending. `Close` makes it out of date without asking for one (`webview.cc:212`), so a
  reopened view stays blank until the window repaints for another reason. And a
  replaced browser that goes with its pop-up up leaves it on the screen.
* `VisibleIsNotHidden` and `FocusIsReal` are about the stored browser, too: one that
  lost its place while the view was hidden stays hidden for ever, a consequence of
  finding 1. `FocusIsReal` excepts the focus SOUI refused (`refused`), of which
  `OnShowWindow` tells CEF without looking (`webview.cc:372-373`).
* `SizeSettles` and `FitsEventually` except the state `overtaken`: resize a
  widget, let CEF ask for the size, and resize it back before the paint arrives.
  `OnSize` compares with the old bitmap, finds it equal and says nothing; CEF paints
  the other size and nobody tells it otherwise. `FitsEventually` also excepts a
  hidden browser, which does not paint, and a bitmap that another browser painted
  over (`PaintedOver`): the stored one is not asked to paint again.
* `QuietWithoutButtons` holds for presses that are not disturbed: by a second
  button, a capture taken away, a pop-up drawn elsewhere than CEF has it, or the
  stored browser going away or giving its place to another between press and release
  (finding 1 again). In each of those the code does leave something behind (a
  rotation, or a button some browser believes to be down); the history variable
  `undisturbed` names them exactly.
* `NodeEndsWithImm` excepts the browsers that lost their place in the handler in the
  middle of a composition (`replaced`): the cancellation goes to the one that took it.
* `ClickCountIsChain` excepts chains whose message times are near zero or wrap
  around: forgetting a click sets its time to 0, which then looks recent.
* `EveryLoadGoesOn` is what the headers and comments say, and refuted: finding 4.
  `LoadsGoOn` says that nothing else keeps a load. It excepts the loads of that finding
  (`Forgotten`), and a removal that never ends: `DeleteProvider` returns without
  advancing when an entry's deletion is pending already (`cef_resource_manager.cc:746`),
  so the loop around it goes on for ever. The model keeps that as
  `manager = "removing"`, in which nothing runs any more. All three liveness properties
  except it; no document says when a removal must end, so it is no finding.
* `LoadsAreOwed` is the state behind `LoadsGoOn`: a load in a provider's hands has a
  file being opened for it or an archive being read for it, whatever was removed
  meanwhile, unless it is `Forgotten`.
* `PopupPointsStayInPopup` is about a pop-up that has its place. Hiding one clears
  `original_popup_rect_` and not `popup_rc` (`webview.cc:869`), so that mouse
  positions where it was drawn are shifted until the next one is placed.
* `ThickIsTarget` excepts a clause that straddles the target's end: its underline
  cannot be half thick.

**Findings.**

1. `LifecycleDevTools`: `OnAfterCreated` stores every browser in `m_refBrowser`
   (`webview_handler.cc:304`), DevTools too, so `Close` closes DevTools and leaves
   the view's browser open.
2. `EngineExit`: the window may be closed before `OnAfterCreated`; then nobody ever
   asks the browser to close, and `CefShutdown` is called with it live. `ExitIsClean`
   says how far it reaches: with a careful program and no DevTools it cannot happen.
3. `OsrPopupPlace`: `if (rc.y) rc.y = 0;` (`webview.cc:891`) draws every pop-up at
   the top of the view. `PopupIsAtTop` says how far it reaches: every pop-up that fits
   the view in size, at every scale, while its x is right whenever it fits there.
4. `ResourceManagerForgotten`: an archive that was loaded does not look at what
   `ContinueRequest` answers (`cef_resource_manager.cc:260`), so a load that waited for
   a file the archive does not have is forgotten, although the lines above mean to
   "Continue all pending requests." (257) and a provider that takes a request is to call
   `Continue` or `Stop` (`cef_resource_manager.h:192-196`). `LoadsGoOn` says how far it
   reaches.

## 4. Proofs

Each theorem is about the same `Spec` the runs check, for every value of the
constants allowed by the modules' assumptions. Each safety proof is the same
argument: an inductive invariant `Inv`, `Init => Inv`, `Inv /\ [Next]_vars => Inv'`
with one step per action, and the property from `Inv`.

| module | theorem | invariant and why it is needed |
|---|---|---|
| `WebViewLifecycle_proofs` | `TypeCorrect`, `CounterExact`, `ReferencesValid`, `DelegatesValid` | the properties together, with: a browser's client is a view, and a handler points to its own view or nothing. Counting needs that `OnAfterCreated` and `OnBeforeClose` each move one browser in or out of a finite set |
| | `NewBrowserIsLoaded` | an action property, from the same invariant |
| | `OneBrowser`, `CloseReachesBrowser`, `RefinesSlot` | for a careful program without DevTools: at most one active browser to a handler, named by `m_refBrowser` once it exists, and none before `OnCreate`. The refinement maps each step to a step of `BrowserSlot` or a stutter |
| | `NoBrowserIsAbandoned` | the same program: when a view is destroyed, nothing is on its way and the one browser is told to close; nothing comes to life for it later |
| `Engine_proofs` | `EngineTypeCorrect`, `ContextIsThere` | the lifecycle's invariant, and: the context is there until the engine is released, and no browser exists then |
| | `EngineRunsLifecycle` | every step of the engine is a step of the lifecycle or a stutter, so the lifecycle's theorems hold inside the engine |
| | `ExitIsClean`, `EngineHasSlot` | `NoBrowserIsAbandoned` and `RefinesSlot`, carried over by `EngineRunsLifecycle`, and that the only view is freed before the loop ends: to a careful program the engine exits without a live browser, and its view is a browser slot |
| `OsrView_proofs` | `TypeCorrect`, `FlagIsRight`, `NoLateBitmap`, `PopupPointsCorrect` | the drawn and the asked-for rectangle have the same size while the pop-up has a place; painting keeps the flag in step through nesting |
| | `PopupIsInView` | an action property: clamping in the code's order leaves a small enough rectangle inside the view |
| | `PopupIsAtTop` | an action property, from the same lemmas: the y of a pop-up that fits is 0, its x the one asked for |
| | `NoPaintIsLost` | whenever a visible, attached view shows less or more than the page, its stored browser or the window owes a paint; needs that a visible view was shown once, and that an attached view without a bitmap is being painted |
| `WindowSync_proofs` | `TypeCorrect`, `NeverLeftHidden`, `FocusNotInvented` | the stored browser was told of a focus only through a host, and a visible widget was shown once; each step that stores a browser stores one that is not hidden and was told nothing |
| | `BitmapFits` | when the stored browser owes no question, its layout size is the widget's, or one that paints the widget's size exactly; when it owes no paint and painted last, the bitmap has the layout size. The arithmetic lemmas bound what rounding there and back loses |
| | `ConversionsKeepOrder`, `PointerStaysOnPixel` | about `Geometry`, for all integers: the conversions are monotone, and a position drawn and pointed at again is off by at most one logical pixel |
| `MouseInput_proofs` | `TypeCorrect`, `QuietAfterRelease` | while undisturbed at most one button is held, capture and rotation are explained by it, and only the stored browser was told of it |
| | `ClickCountCorrect` | the remembered click is the chain's last one, or was forgotten so long ago (in message time) that the next press starts anew |
| `ImeComposition_proofs` | `TypeCorrect`, `CandidateIsSafe`, `NodeEnds` | the cursor is at least -1, a page has a node only if its browser is stored or lost its place while it had it, and the stored one's is what `GetCompositionInfo` made of some composition |
| | `UnderlinesAreRight`, `ThickIsRight` | from the last part: lemmas say what `GetCompositionInfo` returns for a composition of any length, with any target and any clauses or none |
| `ResourceManager_proofs` | `TypeCorrect`, `EntriesStay` | an entry's pending requests are the loads under way that point to it, so one that is deleted has none |
| | `CancelledHasNoSay`, `EveryoneAsked`, `AskedInOrder` | the list is ordered by `Order` and number; a load has visited what stands before its entry, or was not offered it; no load is held or handled by a provider that was told of its cancelling |
| | `HeldLoadsAreOwed` | a held load's provider is not deleted, and its file or its archive is still to come, or its archive has been read without it |
| | `RefinesWalk` | every step is one of `ProviderWalk` or a stutter: removing, once or for ever, is a `Withdraw`, the destructor a `Delete`, and an archive's answer one `Answer` for all its loads |
| | `LoadsRunOut` | an action property: a task of a load ends it or takes it to a provider further behind; removals, answers and other loads leave it with the provider it is with |
| `SchemeHandler_proofs` | `ResponsesAreWhole`, `TypesFit`, `RefinesStream` | what CEF received is the first `offset_` bytes of `data_`, and `data_` is what the stage says |
| | `RequestsRunOut` | an action property: each call takes its request to a later stage or leaves fewer bytes to read, and disturbs no other request |

**Assumptions**, named where the constants are declared: the browsers are a finite
set; `NULL` and the empty address are not among views, browsers and addresses; the
scale is that of a Windows setting, a multiple of 25 per cent from 100 on (these
factors are exact in `float`, so that integer division is what the code computes);
sizes are not negative; the main window's layout has one view (`main_window.xml`); the double-click time is shorter than half the clock; the
bodies served are not empty.

**Only model-checked.** Liveness, since the prover has no reasoning about
fairness: `DestroyedViewLosesBrowsers`, `CountFallsBack`, `CloseLeadsToRelease`,
`HiddenPopupDisappears`, `ViewReachesScreen`, `RequestsEnd`, `FitsEventually`,
`LoadsGoOn` and `RemovedEntriesGo`. Every other property of a passing run is a
theorem. The state and step halves of most of these are theorems as well; what is left
to TLC is that what is owed is done, under the fairness above:

| liveness | what is proved of it |
|---|---|
| `DestroyedViewLosesBrowsers` | `NoBrowserIsAbandoned`: every browser of a destroyed view is closing |
| `CountFallsBack` | `CounterExact`: the counter is what it was when no browser is left |
| `CloseLeadsToRelease` | nothing: it is `wWinMain`'s straight line, and `CefShutdown`, which is external |
| `HiddenPopupDisappears`, `ViewReachesScreen` | `NoPaintIsLost`: while they have not come true, a paint is owed |
| `RequestsEnd` | `RequestsRunOut`: a measure that every call brings down |
| `FitsEventually` | `BitmapFits`: a bitmap that does not fit has a question or a paint outstanding |
| `LoadsGoOn` | `HeldLoadsAreOwed`: a held load has an answer coming; `LoadsRunOut`: each task takes it to its end or to a provider further behind, of which there are finitely many |
| `RemovedEntriesGo` | `EntriesStay`: an entry that waits for its deletion has loads under way to leave it |

## 5. Not modelled

* The rest of `SWebViewHandler`'s request, certificate and geolocation handlers
  (`webview_handler.cc:455-629`): they build a page or return a constant, and
  `GetRequestHandler` is not overridden (`webview_handler.h:154-160`), so that CEF
  calls none of them. Of those, the loads handed to `CefResourceManager` are modelled.
* `CefResourceManager::SetUrlFilter` and `SetMimeTypeResolver`: they change how an
  address or a file name is read, which no property tells apart.
* The rest of `libcef_dll_wrapper/` and the headers under `cef_3029/`, by far the
  most lines of the repository: CEF's own distribution. The generated `ctocpp` and
  `cpptoc` files pass each call on to libcef and keep nothing but a reference
  count; the message router and the archive and XML readers
  are built but not used by the program (the archive reader only by the archive
  provider of `CefResourceManager`), and the byte-read and stream handlers return
  bytes from memory. libcef itself is not in the repository.
* `RegisterCustomSchemes`, `SetInputLanguage`, `EnableIME`, `DisableIME`,
  `CancelIME`: without a caller. `StartDragging` refuses every drag.
* Titles, cursors, console output, request dumps and certificate texts: text and
  layout.
* The application objects and the render process: no state after start-up.
* The keyboard: `SendKeyEvent` turns one message into one event and keeps nothing;
  `OnPreKeyEvent` is in the lifecycle.
* SOUI, CEF and Windows themselves, but for the order of their calls.

## 6. Plan

Done, in order of importance: lifecycle and its abstract slot; engine; painting
and pop-ups; scheme handler and its abstract stream; IME; mouse; window state;
resource loads; and theorems for every safety property of the passing runs.

Also done: three abstract specifications (`BrowserSlot`, `ByteStream`,
`ProviderWalk`), each proved to be implemented; lemmas on the conversions; and the
state halves of the liveness properties.

Next:

1. Keyboard: `GetCefKeyboardModifiers` and the type of each key event as operators,
   checked against the meaning of the flags; `GetScreenInfo` and `GetScreenPoint`.
2. A composition of `WindowSync` and `OsrView`, so that the size a paint is made
   for and the pop-up's place are seen together.
